---- MODULE Spec2Model ----
(***************************************************************************)
(* Wave state machine and trap/exception model of the GPU debugger's      *)
(* architecture abstraction layer (src/src/wave.cpp and                   *)
(* src/src/architecture.cpp).                                              *)
(*                                                                         *)
(* A hardware register is modelled as the set of the bit positions that    *)
(* are set in it; a mask constant of the source (1 << n) is modelled as    *)
(* the bit position n.  An address is a record [hi, lo]: lo is bits 31:0   *)
(* and hi is bits 63:32 of the 64-bit value.                               *)
(***************************************************************************)
EXTENDS Integers, Naturals, Sequences, FiniteSets

(***************************************************************************)
(* Bounds of the model.                                                    *)
(***************************************************************************)
ProgLen == 7
MaxHwExcp == 1
MaxResume == 1

(***************************************************************************)
(* Bit positions of the register layouts (architecture.cpp).               *)
(***************************************************************************)
sq_wave_status_scc_mask == 0
sq_wave_status_halt_mask == 13
sq_wave_status_skip_export_mask == 18
sq_wave_state_priv_scc_mask == 9
sq_wave_state_priv_halt_mask == 14

sq_wave_mode_debug_en_mask == 11
sq_wave_mode_excp_en_invalid_mask == 12
sq_wave_mode_excp_en_input_denorm_mask == 13
sq_wave_mode_excp_en_div0_mask == 14
sq_wave_mode_excp_en_overflow_mask == 15
sq_wave_mode_excp_en_underflow_mask == 16
sq_wave_mode_excp_en_inexact_mask == 17
sq_wave_mode_excp_en_int_div0_mask == 18
sq_wave_mode_excp_en_addr_watch_mask == 19
sq_wave_mode_trap_after_inst_en_mask == 11

sq_wave_trapsts_excp_invalid_mask == 0
sq_wave_trapsts_excp_input_denorm_mask == 1
sq_wave_trapsts_excp_div0_mask == 2
sq_wave_trapsts_excp_overflow_mask == 3
sq_wave_trapsts_excp_underflow_mask == 4
sq_wave_trapsts_excp_inexact_mask == 5
sq_wave_trapsts_excp_int_div0_mask == 6
sq_wave_trapsts_excp_addr_watch0_mask == 7
sq_wave_trapsts_excp_mem_viol_mask == 8
sq_wave_trapsts_illegal_inst_mask == 11
sq_wave_trapsts_excp_hi_addr_watch1_mask == 12
sq_wave_trapsts_excp_hi_addr_watch2_mask == 13
sq_wave_trapsts_excp_hi_addr_watch3_mask == 14
sq_wave_trapsts_xnack_error_mask == 28

gfx940_trapsts_host_trap_mask == 22
gfx940_trapsts_wave_begin_mask == 23
gfx940_trapsts_wave_end_mask == 24
gfx940_trapsts_trap_after_inst_mask == 25

gfx11_trapsts_host_trap_mask == 16
gfx11_trapsts_wave_begin_mask == 17
gfx11_trapsts_wave_end_mask == 18
gfx11_trapsts_trap_after_inst_mask == 20

sq_wave_trap_ctrl_alu_invalid_mask == 0
sq_wave_trap_ctrl_alu_input_denorm_mask == 1
sq_wave_trap_ctrl_alu_float_div0_mask == 2
sq_wave_trap_ctrl_alu_overflow_mask == 3
sq_wave_trap_ctrl_alu_underflow_mask == 4
sq_wave_trap_ctrl_alu_inexact_mask == 5
sq_wave_trap_ctrl_alu_int_div0_mask == 6
sq_wave_trap_ctrl_addr_watch_mask == 7
sq_wave_trap_ctrl_trap_after_inst_mask == 9

sq_wave_excp_priv_addr_watch0_mask == 0
sq_wave_excp_priv_addr_watch1_mask == 1
sq_wave_excp_priv_addr_watch2_mask == 2
sq_wave_excp_priv_addr_watch3_mask == 3
sq_wave_excp_priv_memviol_mask == 4
sq_wave_excp_priv_illegal_inst_mask == 6
sq_wave_excp_priv_host_trap_mask == 7
sq_wave_excp_priv_wave_start_mask == 8
sq_wave_excp_priv_wave_end_mask == 9
sq_wave_excp_priv_trap_after_inst_mask == 11
sq_wave_excp_priv_xnack_error_mask == 12

sq_wave_excp_user_alu_invalid_mask == 0
sq_wave_excp_user_alu_input_denorm_mask == 1
sq_wave_excp_user_alu_float_div0_mask == 2
sq_wave_excp_user_alu_overflow_mask == 3
sq_wave_excp_user_alu_underflow_mask == 4
sq_wave_excp_user_alu_inexact_mask == 5
sq_wave_excp_user_alu_int_div0_mask == 6

(* trap_id_t *)
trap_id_breakpoint == 1
trap_id_assert_trap == 2
trap_id_debug_trap == 3

(* Width of the saved trap id field of ttmp6 and of the saved PC fields.  *)
ttmp6_saved_trap_id_size == 4
saved_pc_hi_size == 16

(***************************************************************************)
(* Architectures, wave states, stop reasons, exceptions.                   *)
(***************************************************************************)
Archs == {"gfx9", "gfx940", "gfx10_1", "gfx10_3", "gfx11", "gfx12"}

RUN == "RUN"
SINGLE_STEP == "SINGLE_STEP"
STOP == "STOP"
WaveStates == {RUN, SINGLE_STEP, STOP}

StopReasons ==
  {"BREAKPOINT", "WATCHPOINT", "SINGLE_STEP", "FP_INPUT_DENORMAL",
   "FP_DIVIDE_BY_0", "FP_OVERFLOW", "FP_UNDERFLOW", "FP_INEXACT",
   "FP_INVALID_OPERATION", "INT_DIVIDE_BY_0", "DEBUG_TRAP", "ASSERT_TRAP",
   "TRAP", "MEMORY_VIOLATION", "ADDRESS_ERROR", "ILLEGAL_INSTRUCTION"}

(* wave_t::resumable_stop_reason_mask: the stop reasons a wave can be      *)
(* resumed from; the others are fatal.                                     *)
resumable_stop_reason_mask ==
  StopReasons \ {"MEMORY_VIOLATION", "ADDRESS_ERROR", "ILLEGAL_INSTRUCTION"}

(* exception_mask_t *)
Exceptions ==
  {"invalid", "input_denorm", "float_div0", "overflow", "underflow",
   "inexact", "int_div0", "mem_viol", "illegal_inst", "addr_watch0",
   "addr_watch1", "addr_watch2", "addr_watch3", "xnack_error", "wave_begin",
   "wave_end", "trap_after_inst", "host_trap"}

(***************************************************************************)
(* Per-generation constants.                                               *)
(***************************************************************************)
can_halt_at_endpgm(a) ==
  CASE a = "gfx9" -> FALSE
    [] a = "gfx940" -> TRUE
    [] a = "gfx10_1" -> FALSE
    [] a = "gfx10_3" -> TRUE
    [] a = "gfx11" -> TRUE
    [] a = "gfx12" -> TRUE

can_halt_at_sendmsg_dealloc_vgprs == FALSE

park_stopped_waves(a, r_version) ==
  IF a \in {"gfx11", "gfx12"}
  THEN ~(can_halt_at_endpgm(a) /\ can_halt_at_sendmsg_dealloc_vgprs)
       /\ r_version > 8
  ELSE ~can_halt_at_endpgm(a)

(* Addresses.  *)
Addr(i) == [hi |-> 1, lo |-> 256 + 4 * i]
CodeAddrs == {Addr(i) : i \in 0 .. (ProgLen - 1)}
park_instruction_address == [hi |-> 0, lo |-> 64]
endpgm_instruction_address == [hi |-> 0, lo |-> 68]
displaced_buffer_address == [hi |-> 0, lo |-> 128]
NoAddr == [hi |-> 0, lo |-> 0]


(***************************************************************************)
(* Instruction memory.  An instruction is modelled by its kind.  The code  *)
(* object is a fixed program; the queue owns an immutable trap instruction *)
(* (park) and an immutable s_endpgm.  The client has replaced the          *)
(* instruction at BreakpointAddr by a breakpoint (s_trap 1) and can put    *)
(* the original instruction back; mem.buffer is the displaced stepping     *)
(* buffer.                                                                 *)
(***************************************************************************)
Program(i) ==
  CASE i % 7 = 0 -> "seq"
    [] i % 7 = 1 -> "cbranch"
    [] i % 7 = 2 -> "trap"
    [] i % 7 = 3 -> "sethalt"
    [] i % 7 = 4 -> "cbranch"
    [] OTHER -> "endpgm"

AddrIndex(pc) == (pc.lo - 256) \div 4

BreakpointAddr == Addr(1)

(* wave_t::instruction_at_pc followed by the decode of its kind; an        *)
(* address outside the mapped code is an inaccessible instruction.         *)
instruction_at(mem, pc) ==
  IF pc = BreakpointAddr /\ mem.breakpoint THEN "trap"
  ELSE IF pc \in CodeAddrs THEN Program(AddrIndex(pc))
  ELSE IF pc = park_instruction_address THEN "trap"
  ELSE IF pc = endpgm_instruction_address THEN "endpgm"
  ELSE IF pc = displaced_buffer_address THEN mem.buffer
  ELSE "none"

(* The trap id of the trap instruction at pc: a breakpoint is s_trap 1.    *)
trap_id_at(mem, pc, imm) ==
  IF pc = BreakpointAddr /\ mem.breakpoint THEN trap_id_breakpoint ELSE imm

instruction_size == 4

NextAddr(pc) == [pc EXCEPT !.lo = pc.lo + instruction_size]

is_endpgm(kind) == kind = "endpgm"
is_sequential(kind) == kind \in {"seq", "sethalt"}
is_cbranch(kind) == kind = "cbranch"

can_simulate(kind) == is_cbranch(kind) \/ is_endpgm(kind)

can_execute_displaced(kind) ==
  IF kind = "none" THEN FALSE
  ELSE IF is_cbranch(kind) THEN FALSE
  ELSE TRUE

(***************************************************************************)
(* The wave object: the fields of wave_t and the wave's hardware           *)
(* registers (w.regs) in the context save area.                            *)
(***************************************************************************)
NoDisplacedStepping ==
  [active |-> FALSE, from |-> NoAddr, is_simulated |-> FALSE,
   original |-> "none", target |-> NoAddr]

dbgapi_assert(w, cond) == IF cond THEN w ELSE [w EXCEPT !.aborted = TRUE]

(* wave_t::read_register *)
read_register(w, regnum) ==
  IF w.m_is_parked /\ regnum = "pc" THEN w.m_parked_pc ELSE w.regs[regnum]

(* wave_t::write_register *)
write_register(w, regnum, value) ==
  IF w.m_is_parked /\ regnum = "pc"
  THEN [w EXCEPT !.m_parked_pc = value]
  ELSE [w EXCEPT !.regs[regnum] = value]

(* wave_t::pc *)
pc_of(w) == read_register(w, "pc")

(* wave_t::instruction_at_pc *)
instruction_at_pc(w) == instruction_at(w.mem, pc_of(w))

(* wave_t::raise_event *)
raise_event(w, event_kind) ==
  [w EXCEPT !.m_last_stop_event = "queued",
            !.last_event_kind = event_kind,
            !.stop_events = @ + 1]

(* wave_t::client_visible_state *)
client_visible_state(w) ==
  IF w.m_state # STOP THEN w.m_state
  ELSE IF w.m_last_stop_event \in {"none", "reported", "processed"}
       THEN STOP
  ELSE IF "SINGLE_STEP" \in w.m_stop_reason THEN SINGLE_STEP
  ELSE RUN

(* The name of the register that holds the hardware halt bit, and the     *)
(* position of that bit.                                                   *)
HaltReg(a) == IF a = "gfx12" THEN "state_priv" ELSE "status"

HaltBit(a) ==
  IF a = "gfx12" THEN sq_wave_state_priv_halt_mask
  ELSE sq_wave_status_halt_mask

HwHalted(w) == HaltBit(w.arch) \in w.regs[HaltReg(w.arch)]


(***************************************************************************)
(* Exceptions: translation between the exception mask and the bits of the  *)
(* exception flag registers of each generation.                            *)
(***************************************************************************)
MaskableExceptions ==
  {"invalid", "input_denorm", "float_div0", "overflow", "underflow",
   "inexact", "int_div0", "addr_watch0", "addr_watch1", "addr_watch2",
   "addr_watch3"}

(* The trapsts bit of an exception (amdgcn layout).  *)
TrapstsBit(e) ==
  CASE e = "invalid" -> sq_wave_trapsts_excp_invalid_mask
    [] e = "input_denorm" -> sq_wave_trapsts_excp_input_denorm_mask
    [] e = "float_div0" -> sq_wave_trapsts_excp_div0_mask
    [] e = "overflow" -> sq_wave_trapsts_excp_overflow_mask
    [] e = "underflow" -> sq_wave_trapsts_excp_underflow_mask
    [] e = "inexact" -> sq_wave_trapsts_excp_inexact_mask
    [] e = "int_div0" -> sq_wave_trapsts_excp_int_div0_mask
    [] e = "xnack_error" -> sq_wave_trapsts_xnack_error_mask
    [] e = "mem_viol" -> sq_wave_trapsts_excp_mem_viol_mask
    [] e = "illegal_inst" -> sq_wave_trapsts_illegal_inst_mask
    [] e = "addr_watch0" -> sq_wave_trapsts_excp_addr_watch0_mask
    [] e = "addr_watch1" -> sq_wave_trapsts_excp_hi_addr_watch1_mask
    [] e = "addr_watch2" -> sq_wave_trapsts_excp_hi_addr_watch2_mask
    [] e = "addr_watch3" -> sq_wave_trapsts_excp_hi_addr_watch3_mask

(* The mode.excp_en bit that enables a maskable exception.  *)
ModeEnBit(e) ==
  CASE e = "invalid" -> sq_wave_mode_excp_en_invalid_mask
    [] e = "input_denorm" -> sq_wave_mode_excp_en_input_denorm_mask
    [] e = "float_div0" -> sq_wave_mode_excp_en_div0_mask
    [] e = "overflow" -> sq_wave_mode_excp_en_overflow_mask
    [] e = "underflow" -> sq_wave_mode_excp_en_underflow_mask
    [] e = "inexact" -> sq_wave_mode_excp_en_inexact_mask
    [] e = "int_div0" -> sq_wave_mode_excp_en_int_div0_mask
    [] OTHER -> sq_wave_mode_excp_en_addr_watch_mask

(* amdgcn_architecture_t::signaled_exceptions *)
amdgcn_signaled_exceptions(w) ==
  {e \in MaskableExceptions :
     TrapstsBit(e) \in w.regs.trapsts /\ ModeEnBit(e) \in w.regs.mode}
  \cup {e \in {"xnack_error", "mem_viol", "illegal_inst"} :
          TrapstsBit(e) \in w.regs.trapsts}

(* convert_mask of amdgcn_architecture_t::set_exceptions *)
amdgcn_convert_mask(m) ==
  {TrapstsBit(e) :
     e \in m \cap {"invalid", "input_denorm", "float_div0", "overflow",
                   "underflow", "int_div0", "mem_viol", "illegal_inst",
                   "addr_watch0", "addr_watch1", "addr_watch2",
                   "addr_watch3"}}

(* amdgcn_architecture_t::set_exceptions *)
amdgcn_set_exceptions(w, mask, exceptions) ==
  LET trapsts_mask == amdgcn_convert_mask(mask)
      trapsts_set == amdgcn_convert_mask(exceptions)
      trapsts == read_register(w, "trapsts")
  IN write_register(w, "trapsts",
       (trapsts \ trapsts_mask) \cup (trapsts_set \cap trapsts_mask))

(* The trapsts bits of gfx940 and gfx11 for the exceptions that only       *)
(* these generations report.                                               *)
ExtTrapstsBit(a, e) ==
  CASE e = "wave_begin" ->
         IF a = "gfx940" THEN gfx940_trapsts_wave_begin_mask
         ELSE gfx11_trapsts_wave_begin_mask
    [] e = "wave_end" ->
         IF a = "gfx940" THEN gfx940_trapsts_wave_end_mask
         ELSE gfx11_trapsts_wave_end_mask
    [] e = "host_trap" ->
         IF a = "gfx940" THEN gfx940_trapsts_host_trap_mask
         ELSE gfx11_trapsts_host_trap_mask
    [] e = "trap_after_inst" ->
         IF a = "gfx940" THEN gfx940_trapsts_trap_after_inst_mask
         ELSE gfx11_trapsts_trap_after_inst_mask

ExtExceptions == {"wave_begin", "wave_end", "host_trap", "trap_after_inst"}

(* gfx940_t::signaled_exceptions, gfx11_architecture_t::signaled_exceptions *)
ext_signaled_exceptions(w) ==
  {e \in ExtExceptions : ExtTrapstsBit(w.arch, e) \in w.regs.trapsts}
  \cup amdgcn_signaled_exceptions(w)

(* gfx940_t::set_exceptions, gfx11_architecture_t::set_exceptions *)
ext_set_exceptions(w, mask, exceptions) ==
  LET w1 == amdgcn_set_exceptions(w, mask, exceptions)
      trapsts_mask == {ExtTrapstsBit(w.arch, e) : e \in mask \cap ExtExceptions}
      trapsts_set ==
        {ExtTrapstsBit(w.arch, e) : e \in exceptions \cap ExtExceptions}
      trapsts == read_register(w1, "trapsts")
  IN write_register(w1, "trapsts",
       (trapsts \ trapsts_mask) \cup (trapsts_set \cap trapsts_mask))


(* The excp_flag_user bit of a floating point or integer exception and the *)
(* trap_ctrl bit that enables it (gfx12 layout).                           *)
ExcpUserBit(e) ==
  CASE e = "invalid" -> sq_wave_excp_user_alu_invalid_mask
    [] e = "input_denorm" -> sq_wave_excp_user_alu_input_denorm_mask
    [] e = "float_div0" -> sq_wave_excp_user_alu_float_div0_mask
    [] e = "overflow" -> sq_wave_excp_user_alu_overflow_mask
    [] e = "underflow" -> sq_wave_excp_user_alu_underflow_mask
    [] e = "inexact" -> sq_wave_excp_user_alu_inexact_mask
    [] e = "int_div0" -> sq_wave_excp_user_alu_int_div0_mask

TrapCtrlBit(e) ==
  CASE e = "invalid" -> sq_wave_trap_ctrl_alu_invalid_mask
    [] e = "input_denorm" -> sq_wave_trap_ctrl_alu_input_denorm_mask
    [] e = "float_div0" -> sq_wave_trap_ctrl_alu_float_div0_mask
    [] e = "overflow" -> sq_wave_trap_ctrl_alu_overflow_mask
    [] e = "underflow" -> sq_wave_trap_ctrl_alu_underflow_mask
    [] e = "inexact" -> sq_wave_trap_ctrl_alu_inexact_mask
    [] e = "int_div0" -> sq_wave_trap_ctrl_alu_int_div0_mask
    [] OTHER -> sq_wave_trap_ctrl_addr_watch_mask

ExcpPrivBit(e) ==
  CASE e = "addr_watch0" -> sq_wave_excp_priv_addr_watch0_mask
    [] e = "addr_watch1" -> sq_wave_excp_priv_addr_watch1_mask
    [] e = "addr_watch2" -> sq_wave_excp_priv_addr_watch2_mask
    [] e = "addr_watch3" -> sq_wave_excp_priv_addr_watch3_mask
    [] e = "mem_viol" -> sq_wave_excp_priv_memviol_mask
    [] e = "illegal_inst" -> sq_wave_excp_priv_illegal_inst_mask
    [] e = "host_trap" -> sq_wave_excp_priv_host_trap_mask
    [] e = "wave_begin" -> sq_wave_excp_priv_wave_start_mask
    [] e = "wave_end" -> sq_wave_excp_priv_wave_end_mask
    [] e = "trap_after_inst" -> sq_wave_excp_priv_trap_after_inst_mask
    [] e = "xnack_error" -> sq_wave_excp_priv_xnack_error_mask

UserExceptions ==
  {"invalid", "input_denorm", "float_div0", "overflow", "underflow",
   "inexact", "int_div0"}

WatchExceptions ==
  {"addr_watch0", "addr_watch1", "addr_watch2", "addr_watch3"}

PrivExceptions == Exceptions \ UserExceptions

(* gfx12_architecture_t::signaled_exceptions *)
gfx12_signaled_exceptions(w) ==
  {e \in UserExceptions :
     ExcpUserBit(e) \in w.regs.excp_flag_user
     /\ TrapCtrlBit(e) \in w.regs.trap_ctrl}
  \cup {e \in WatchExceptions :
          ExcpPrivBit(e) \in w.regs.excp_flag_priv
          /\ TrapCtrlBit(e) \in w.regs.trap_ctrl}
  \cup {e \in PrivExceptions \ WatchExceptions :
          ExcpPrivBit(e) \in w.regs.excp_flag_priv}

(* gfx12_architecture_t::set_exceptions *)
gfx12_set_exceptions(w, mask, exceptions) ==
  LET excp_flag_priv_mask == {ExcpPrivBit(e) : e \in mask \cap PrivExceptions}
      excp_flag_priv_set ==
        {ExcpPrivBit(e) : e \in exceptions \cap PrivExceptions}
      excp_flag_user_mask == {ExcpUserBit(e) : e \in mask \cap UserExceptions}
      excp_flag_user_set ==
        {ExcpUserBit(e) : e \in exceptions \cap UserExceptions}
      excp_flag_priv_reg == read_register(w, "excp_flag_priv")
      excp_flag_user_reg == read_register(w, "excp_flag_user")
      w1 == write_register(w, "excp_flag_priv",
              (excp_flag_priv_reg \ excp_flag_priv_mask)
              \cup (excp_flag_priv_set \cap excp_flag_priv_mask))
  IN write_register(w1, "excp_flag_user",
       (excp_flag_user_reg \ excp_flag_user_mask)
       \cup (excp_flag_user_set \cap excp_flag_user_mask))

(* Virtual dispatch on the wave's architecture.  *)
signaled_exceptions(w) ==
  CASE w.arch = "gfx12" -> gfx12_signaled_exceptions(w)
    [] w.arch \in {"gfx940", "gfx11"} -> ext_signaled_exceptions(w)
    [] OTHER -> amdgcn_signaled_exceptions(w)

set_exceptions(w, mask, exceptions) ==
  CASE w.arch = "gfx12" -> gfx12_set_exceptions(w, mask, exceptions)
    [] w.arch \in {"gfx940", "gfx11"} -> ext_set_exceptions(w, mask, exceptions)
    [] OTHER -> amdgcn_set_exceptions(w, mask, exceptions)

(* The exceptions that clear_stop_reasons clears for one stop reason.      *)
StopReasonExceptions(r) ==
  CASE r = "MEMORY_VIOLATION" -> {"mem_viol", "xnack_error"}
    [] r = "ADDRESS_ERROR" -> {"mem_viol"}
    [] r = "ILLEGAL_INSTRUCTION" -> {"illegal_inst"}
    [] r = "FP_INVALID_OPERATION" -> {"invalid"}
    [] r = "FP_INPUT_DENORMAL" -> {"input_denorm"}
    [] r = "FP_DIVIDE_BY_0" -> {"float_div0"}
    [] r = "FP_OVERFLOW" -> {"overflow"}
    [] r = "FP_UNDERFLOW" -> {"underflow"}
    [] r = "FP_INEXACT" -> {"inexact"}
    [] r = "INT_DIVIDE_BY_0" -> {"int_div0"}
    [] r = "WATCHPOINT" -> WatchExceptions
    [] r = "SINGLE_STEP" -> {"trap_after_inst"}
    [] OTHER -> {}

(* amdgcn_architecture_t::clear_stop_reasons *)
clear_stop_reasons(w) ==
  LET exceptions ==
        {"wave_begin", "wave_end"}
        \cup UNION {StopReasonExceptions(r) : r \in w.m_stop_reason}
  IN set_exceptions(w, exceptions, {})


(***************************************************************************)
(* Parking by the trap handler: the PC is saved in trap temporaries.       *)
(***************************************************************************)
Pow2(n) == 2 ^ n

(* The trap temporary that holds PC[31:0] of a parked wave.  *)
ParkLoReg(a) == IF a = "gfx12" THEN "ttmp10" ELSE "ttmp7"

(* amdgcn_architecture_t::save_pc_for_park,                                *)
(* gfx12_architecture_t::save_pc_for_park                                  *)
save_pc_for_park(w, pc) ==
  LET w0 == dbgapi_assert(w, park_stopped_waves(w.arch, w.r_version))
      w1 == write_register(w0, ParkLoReg(w.arch), pc.lo)
      ttmp11 == read_register(w1, "ttmp11")
  IN write_register(w1, "ttmp11",
       [ttmp11 EXCEPT !.saved_pc_hi = pc.hi % Pow2(saved_pc_hi_size)])

(* amdgcn_architecture_t::saved_parked_pc,                                 *)
(* gfx12_architecture_t::saved_parked_pc                                   *)
saved_parked_pc(w) ==
  [hi |-> read_register(w, "ttmp11").saved_pc_hi,
   lo |-> read_register(w, ParkLoReg(w.arch))]

NoTrapId == -1

(* A variant of simulate_trap_handler that parks the wave without saving   *)
(* its pc.                                                                 *)
simulate_trap_handler_unsaved(w, pc, trap_id) ==
  LET halt_reg == read_register(w, HaltReg(w.arch))
      ttmp6 == read_register(w, "ttmp6")
      new_ttmp6 ==
        [ttmp6 EXCEPT
           !.wave_stopped = TRUE,
           !.saved_trap_id =
             IF trap_id # NoTrapId
             THEN trap_id % Pow2(ttmp6_saved_trap_id_size) ELSE 0,
           !.saved_status_halt = HaltBit(w.arch) \in halt_reg]
      w1 == write_register(w, "ttmp6", new_ttmp6)
      park == park_stopped_waves(w.arch, w.r_version)
      w2 == w1
      new_pc == IF park THEN park_instruction_address ELSE pc
      w3 == write_register(w2, "pc", new_pc)
  IN write_register(w3, HaltReg(w.arch), halt_reg \cup {HaltBit(w.arch)})

(* amdgcn_architecture_t::simulate_trap_handler,                           *)
(* gfx12_architecture_t::simulate_trap_handler                             *)
simulate_trap_handler(w, pc, trap_id) ==
  LET halt_reg == read_register(w, HaltReg(w.arch))
      ttmp6 == read_register(w, "ttmp6")
      new_ttmp6 ==
        [ttmp6 EXCEPT
           !.wave_stopped = TRUE,
           !.saved_trap_id =
             IF trap_id # NoTrapId
             THEN trap_id % Pow2(ttmp6_saved_trap_id_size) ELSE 0,
           !.saved_status_halt = HaltBit(w.arch) \in halt_reg]
      w1 == write_register(w, "ttmp6", new_ttmp6)
      park == park_stopped_waves(w.arch, w.r_version)
      w2 == IF park THEN save_pc_for_park(w1, pc) ELSE w1
      new_pc == IF park THEN park_instruction_address ELSE pc
      w3 == write_register(w2, "pc", new_pc)
  IN write_register(w3, HaltReg(w.arch), halt_reg \cup {HaltBit(w.arch)})

(* agent_t::os_info ().ttmps_always_initialized *)
ttmps_always_initialized == FALSE

(* The register and bit that make the hardware trap after every           *)
(* instruction: mode.debug_en, or trap_ctrl.trap_after_inst on gfx12.      *)
StepReg(a) == IF a = "gfx12" THEN "trap_ctrl" ELSE "mode"

StepBit(a) ==
  IF a = "gfx12" THEN sq_wave_trap_ctrl_trap_after_inst_mask
  ELSE sq_wave_mode_debug_en_mask

(* A variant of amdgcn_wave_set_state that does not save the halt bit     *)
(* when it stops a wave.                                                   *)
amdgcn_wave_set_state_nosave(w, state) ==
  LET status_reg == read_register(w, "status")
      mode_reg == read_register(w, "mode")
      ttmp6 == read_register(w, "ttmp6")
      resumed_status ==
        (status_reg
           \ {sq_wave_status_halt_mask, sq_wave_status_skip_export_mask})
        \cup (IF ttmp6.saved_status_halt
              THEN {sq_wave_status_halt_mask} ELSE {})
      resumed_ttmp6 ==
        [ttmp6 EXCEPT !.wave_stopped = FALSE, !.saved_status_halt = FALSE]
      new_status ==
        IF state = STOP
        THEN status_reg \cup {sq_wave_status_halt_mask}
             \cup (IF ~ttmps_always_initialized
                   THEN {sq_wave_status_skip_export_mask} ELSE {})
        ELSE resumed_status
      new_ttmp6 ==
        IF state = STOP
        THEN [ttmp6 EXCEPT
                !.saved_status_halt = FALSE,
                !.wave_stopped = TRUE]
        ELSE resumed_ttmp6
      new_mode ==
        CASE state = STOP -> mode_reg
          [] state = RUN -> mode_reg \ {sq_wave_mode_debug_en_mask}
          [] state = SINGLE_STEP -> mode_reg \cup {sq_wave_mode_debug_en_mask}
      w1 == write_register(w, "status", new_status)
      w2 == write_register(w1, "mode", new_mode)
      w3 == write_register(w2, "ttmp6", new_ttmp6)
  IN IF state # STOP /\ w.m_state = STOP /\ w.m_stop_reason # {}
     THEN clear_stop_reasons(w3)
     ELSE w3

(* amdgcn_architecture_t::wave_set_state *)
amdgcn_wave_set_state(w, state) ==
  LET status_reg == read_register(w, "status")
      mode_reg == read_register(w, "mode")
      ttmp6 == read_register(w, "ttmp6")
      resumed_status ==
        (status_reg
           \ {sq_wave_status_halt_mask, sq_wave_status_skip_export_mask})
        \cup (IF ttmp6.saved_status_halt
              THEN {sq_wave_status_halt_mask} ELSE {})
      resumed_ttmp6 ==
        [ttmp6 EXCEPT !.wave_stopped = FALSE, !.saved_status_halt = FALSE]
      new_status ==
        IF state = STOP
        THEN status_reg \cup {sq_wave_status_halt_mask}
             \cup (IF ~ttmps_always_initialized
                   THEN {sq_wave_status_skip_export_mask} ELSE {})
        ELSE resumed_status
      new_ttmp6 ==
        IF state = STOP
        THEN [ttmp6 EXCEPT
                !.saved_status_halt = sq_wave_status_halt_mask \in status_reg,
                !.wave_stopped = TRUE]
        ELSE resumed_ttmp6
      new_mode ==
        CASE state = STOP -> mode_reg
          [] state = RUN -> mode_reg \ {sq_wave_mode_debug_en_mask}
          [] state = SINGLE_STEP -> mode_reg \cup {sq_wave_mode_debug_en_mask}
      w1 == write_register(w, "status", new_status)
      w2 == write_register(w1, "mode", new_mode)
      w3 == write_register(w2, "ttmp6", new_ttmp6)
  IN IF state # STOP /\ w.m_state = STOP /\ w.m_stop_reason # {}
     THEN clear_stop_reasons(w3)
     ELSE w3

(* A variant of gfx12_wave_set_state that leaves the wave-stopped latch    *)
(* set when it resumes a wave.                                             *)
gfx12_wave_set_state_latched(w, state) ==
  LET ttmp6 == read_register(w, "ttmp6")
      state_priv_reg == read_register(w, "state_priv")
      trap_ctrl_reg == read_register(w, "trap_ctrl")
      new_state_priv ==
        IF state = STOP
        THEN state_priv_reg \cup {sq_wave_state_priv_halt_mask}
        ELSE (state_priv_reg \ {sq_wave_state_priv_halt_mask})
             \cup (IF ttmp6.saved_status_halt
                   THEN {sq_wave_state_priv_halt_mask} ELSE {})
      new_ttmp6 ==
        IF state = STOP
        THEN [ttmp6 EXCEPT
                !.saved_status_halt =
                  sq_wave_state_priv_halt_mask \in state_priv_reg,
                !.wave_stopped = TRUE]
        ELSE [ttmp6 EXCEPT !.saved_status_halt = FALSE]
      new_trap_ctrl ==
        CASE state = STOP -> trap_ctrl_reg
          [] state = RUN ->
               trap_ctrl_reg \ {sq_wave_trap_ctrl_trap_after_inst_mask}
          [] state = SINGLE_STEP ->
               trap_ctrl_reg \cup {sq_wave_trap_ctrl_trap_after_inst_mask}
      w1 == write_register(w, "ttmp6", new_ttmp6)
      w2 == write_register(w1, "state_priv", new_state_priv)
      w3 == write_register(w2, "trap_ctrl", new_trap_ctrl)
  IN IF state # STOP /\ w.m_state = STOP /\ w.m_stop_reason # {}
     THEN clear_stop_reasons(w3)
     ELSE w3

(* gfx12_architecture_t::wave_set_state *)
gfx12_wave_set_state(w, state) ==
  LET ttmp6 == read_register(w, "ttmp6")
      state_priv_reg == read_register(w, "state_priv")
      trap_ctrl_reg == read_register(w, "trap_ctrl")
      new_state_priv ==
        IF state = STOP
        THEN state_priv_reg \cup {sq_wave_state_priv_halt_mask}
        ELSE (state_priv_reg \ {sq_wave_state_priv_halt_mask})
             \cup (IF ttmp6.saved_status_halt
                   THEN {sq_wave_state_priv_halt_mask} ELSE {})
      new_ttmp6 ==
        IF state = STOP
        THEN [ttmp6 EXCEPT
                !.saved_status_halt =
                  sq_wave_state_priv_halt_mask \in state_priv_reg,
                !.wave_stopped = TRUE]
        ELSE [ttmp6 EXCEPT
                !.wave_stopped = FALSE, !.saved_status_halt = FALSE]
      new_trap_ctrl ==
        CASE state = STOP -> trap_ctrl_reg
          [] state = RUN ->
               trap_ctrl_reg \ {sq_wave_trap_ctrl_trap_after_inst_mask}
          [] state = SINGLE_STEP ->
               trap_ctrl_reg \cup {sq_wave_trap_ctrl_trap_after_inst_mask}
      w1 == write_register(w, "ttmp6", new_ttmp6)
      w2 == write_register(w1, "state_priv", new_state_priv)
      w3 == write_register(w2, "trap_ctrl", new_trap_ctrl)
  IN IF state # STOP /\ w.m_state = STOP /\ w.m_stop_reason # {}
     THEN clear_stop_reasons(w3)
     ELSE w3

(* architecture_t::wave_set_state (virtual dispatch) *)
wave_set_state(w, state) ==
  IF w.arch = "gfx12" THEN gfx12_wave_set_state(w, state)
  ELSE amdgcn_wave_set_state(w, state)

(* amdgcn_architecture_t::wave_get_halt, gfx12_architecture_t::wave_get_halt *)
wave_get_halt(w) ==
  LET ttmp6 == read_register(w, "ttmp6")
  IN IF ttmp6.wave_stopped THEN ttmp6.saved_status_halt
     ELSE HaltBit(w.arch) \in read_register(w, HaltReg(w.arch))


(***************************************************************************)
(* Reading the wave state back from the hardware registers.                *)
(***************************************************************************)
(* The stop reasons that wave_get_state reports for a set of exceptions.   *)
ExceptionStopReasons(exceptions) ==
  (IF "invalid" \in exceptions THEN {"FP_INVALID_OPERATION"} ELSE {})
  \cup (IF "input_denorm" \in exceptions THEN {"FP_INPUT_DENORMAL"} ELSE {})
  \cup (IF "float_div0" \in exceptions THEN {"FP_DIVIDE_BY_0"} ELSE {})
  \cup (IF "overflow" \in exceptions THEN {"FP_OVERFLOW"} ELSE {})
  \cup (IF "underflow" \in exceptions THEN {"FP_UNDERFLOW"} ELSE {})
  \cup (IF "inexact" \in exceptions THEN {"FP_INEXACT"} ELSE {})
  \cup (IF "int_div0" \in exceptions THEN {"INT_DIVIDE_BY_0"} ELSE {})
  \cup (IF "xnack_error" \in exceptions THEN {"MEMORY_VIOLATION"}
        ELSE IF "mem_viol" \in exceptions THEN {"ADDRESS_ERROR"} ELSE {})
  \cup (IF "illegal_inst" \in exceptions THEN {"ILLEGAL_INSTRUCTION"} ELSE {})
  \cup (IF exceptions \cap WatchExceptions # {} THEN {"WATCHPOINT"} ELSE {})
  \cup (IF "trap_after_inst" \in exceptions THEN {"SINGLE_STEP"} ELSE {})
  \cup (IF exceptions \cap {"wave_begin", "wave_end"} # {}
        THEN {"TRAP"} ELSE {})

(* A variant of TrapIdStopReasons that reports a breakpoint as a trap.     *)
TrapIdStopReasons_trap(trap_id) ==
  CASE trap_id = 0 -> {}
    [] trap_id = trap_id_assert_trap -> {"ASSERT_TRAP"}
    [] trap_id = trap_id_debug_trap -> {"DEBUG_TRAP"}
    [] OTHER -> {"TRAP"}

(* The stop reason of the trap id saved in ttmp6 (0: no trap id).          *)
TrapIdStopReasons(trap_id) ==
  CASE trap_id = 0 -> {}
    [] trap_id = trap_id_assert_trap -> {"ASSERT_TRAP"}
    [] trap_id = trap_id_debug_trap -> {"DEBUG_TRAP"}
    [] trap_id = trap_id_breakpoint -> {"BREAKPOINT"}
    [] OTHER -> {"TRAP"}

(* amdgcn_architecture_t::wave_get_state *)
amdgcn_wave_get_state(w) ==
  LET ttmp6 == read_register(w, "ttmp6")
      is_stopped == ttmp6.wave_stopped
      w1 == IF park_stopped_waves(w.arch, w.r_version)
            THEN write_register(w, "pc", saved_parked_pc(w))
            ELSE w
  IN IF ~is_stopped
     THEN [w |-> w, state |-> w.m_state, stop_reason |-> {}]
     ELSE IF w.m_state = STOP
     THEN [w |-> w, state |-> STOP, stop_reason |-> w.m_stop_reason]
     ELSE [w |-> w1, state |-> STOP,
           stop_reason |->
             ExceptionStopReasons(signaled_exceptions(w1))
             \cup TrapIdStopReasons(ttmp6.saved_trap_id)]

(* A variant of gfx9_wave_get_state that does not detect the end of a      *)
(* single step.                                                            *)
gfx9_wave_get_state_nostep(w) == amdgcn_wave_get_state(w)

(* A variant of gfx9_wave_get_state that resumes a wave in the run state   *)
(* when it ignores a spurious single-step.                                 *)
gfx9_wave_get_state_run(w) ==
  LET prev_state == w.m_state
      single_step(r) ==
        IF prev_state # SINGLE_STEP \/ r.state # STOP THEN r
        ELSE IF pc_of(r.w) # r.w.m_last_stopped_pc
        THEN [r EXCEPT !.stop_reason = r.stop_reason \cup {"SINGLE_STEP"}]
        ELSE IF r.stop_reason # {} THEN r
        ELSE IF is_sequential(instruction_at_pc(r.w))
        THEN [w |-> wave_set_state(r.w, RUN),
              state |-> RUN, stop_reason |-> {}]
        ELSE [r EXCEPT !.stop_reason = {"SINGLE_STEP"}]
  IN single_step(amdgcn_wave_get_state(w))

(* A variant of gfx9_wave_get_state that reports every single-step trap,   *)
(* spurious or not.                                                        *)
gfx9_wave_get_state_report(w) ==
  LET prev_state == w.m_state
      single_step(r) ==
        IF prev_state # SINGLE_STEP \/ r.state # STOP THEN r
        ELSE [r EXCEPT !.stop_reason = r.stop_reason \cup {"SINGLE_STEP"}]
  IN single_step(amdgcn_wave_get_state(w))

(* gfx9_architecture_t::wave_get_state *)
gfx9_wave_get_state(w) ==
  LET prev_state == w.m_state
      single_step(r) ==
        IF prev_state # SINGLE_STEP \/ r.state # STOP THEN r
        ELSE IF pc_of(r.w) # r.w.m_last_stopped_pc
        THEN [r EXCEPT !.stop_reason = r.stop_reason \cup {"SINGLE_STEP"}]
        ELSE IF r.stop_reason # {} THEN r
        ELSE IF is_sequential(instruction_at_pc(r.w))
        THEN [w |-> wave_set_state(r.w, SINGLE_STEP),
              state |-> SINGLE_STEP, stop_reason |-> {}]
        ELSE [r EXCEPT !.stop_reason = {"SINGLE_STEP"}]
  IN single_step(amdgcn_wave_get_state(w))

(* architecture_t::wave_get_state (virtual dispatch); gfx940 overrides it  *)
(* with the base implementation.                                           *)
wave_get_state(w) ==
  IF w.arch = "gfx940" THEN amdgcn_wave_get_state(w)
  ELSE gfx9_wave_get_state(w)


(***************************************************************************)
(* wave_t: parking, termination and the state machine.                     *)
(***************************************************************************)
(* A variant of park that leaves the pc of the wave in the save area.      *)
park_pc_in_place(w) ==
  LET w0 == dbgapi_assert(dbgapi_assert(w, w.m_state = STOP), ~w.m_is_parked)
  IN [w0 EXCEPT !.m_parked_pc = pc_of(w0), !.m_is_parked = TRUE]

(* wave_t::park *)
park(w) ==
  LET w0 == dbgapi_assert(dbgapi_assert(w, w.m_state = STOP), ~w.m_is_parked)
      w1 == [w0 EXCEPT !.m_parked_pc = pc_of(w0)]
      w2 == write_register(w1, "pc", park_instruction_address)
  IN [w2 EXCEPT !.m_is_parked = TRUE]

(* wave_t::unpark *)
unpark(w) ==
  LET w0 == dbgapi_assert(dbgapi_assert(w, w.m_state # STOP), w.m_is_parked)
      saved_pc == pc_of(w0)
      w1 == [w0 EXCEPT !.m_is_parked = FALSE]
  IN write_register(w1, "pc", saved_pc)

(* A variant of the end of set_state that acknowledges every stop with     *)
(* WAVE_STOP.                                                              *)
set_state_tail_wave_stop(w, prev_state, state) ==
  LET parked(w1) ==
        IF ~can_halt_at_endpgm(w.arch)
        THEN (IF state = STOP THEN park(w1) ELSE unpark(w1))
        ELSE w1
      finish(w2) ==
        IF state # STOP
        THEN [dbgapi_assert(w2, prev_state = STOP) EXCEPT
                !.m_last_stopped_pc = pc_of(w2),
                !.m_stop_reason = {}]
        ELSE IF prev_state # STOP
        THEN raise_event(
               dbgapi_assert([w2 EXCEPT !.m_stop_reason = {}],
                             w2.m_visibility = "visible"),
               "WAVE_STOP")
        ELSE w2
  IN finish(parked([wave_set_state(w, state) EXCEPT !.m_state = state]))

(* wave_t::set_state from the call of set_wave_state to the end: the part  *)
(* that every state change that reaches the hardware goes through.         *)
set_state_tail(w, prev_state, state) ==
  LET parked(w1) ==
        IF ~can_halt_at_endpgm(w.arch)
        THEN (IF state = STOP THEN park(w1) ELSE unpark(w1))
        ELSE w1
      finish(w2) ==
        IF state # STOP
        THEN [dbgapi_assert(w2, prev_state = STOP) EXCEPT
                !.m_last_stopped_pc = pc_of(w2),
                !.m_stop_reason = {}]
        ELSE IF prev_state # STOP
        THEN raise_event(
               dbgapi_assert([w2 EXCEPT !.m_stop_reason = {}],
                             w2.m_visibility = "visible"),
               IF prev_state = SINGLE_STEP
               THEN "WAVE_COMMAND_TERMINATED" ELSE "WAVE_STOP")
        ELSE w2
  IN finish(parked([wave_set_state(w, state) EXCEPT !.m_state = state]))

(* The two assertions at the head of wave_t::set_state.  *)
set_state_asserts(w, state) ==
  dbgapi_assert(
    dbgapi_assert(w, ~w.m_displaced_stepping.active \/ state # RUN),
    state = STOP \/ w.m_stop_reason \subseteq resumable_stop_reason_mask)

(* A variant of terminate that keeps the displaced stepping operation of   *)
(* the wave.                                                               *)
terminate_displaced(w) ==
  LET w2 == write_register(w, "pc", endpgm_instruction_address)
      w3 == [w2 EXCEPT !.m_visibility = "hidden_at_endpgm"]
      prev_state == w3.m_state
      w4 == [w3 EXCEPT !.m_stop_requested = FALSE]
  IN IF prev_state = RUN THEN w3 ELSE set_state_tail(w4, prev_state, RUN)

(* wave_t::terminate; its call of set_state (RUN) never takes the          *)
(* single-step branches of set_state.                                      *)
terminate(w) ==
  LET w1 == [w EXCEPT !.m_displaced_stepping = NoDisplacedStepping]
      w2 == write_register(w1, "pc", endpgm_instruction_address)
      w3 == [w2 EXCEPT !.m_visibility = "hidden_at_endpgm"]
      prev_state == w3.m_state
      w4 == [set_state_asserts(w3, RUN) EXCEPT !.m_stop_requested = FALSE]
  IN IF prev_state = RUN THEN w3 ELSE set_state_tail(w4, prev_state, RUN)

(***************************************************************************)
(* Instruction simulation.                                                 *)
(***************************************************************************)
branch_simm16 == 1

(* amdgcn_architecture_t::branch_target for a PC relative branch *)
branch_target(pc) ==
  [pc EXCEPT !.lo = pc.lo + instruction_size + branch_simm16 * 4]

(* amdgcn_architecture_t::is_branch_taken,                                 *)
(* gfx12_architecture_t::is_branch_taken for s_cbranch_scc1                *)
is_branch_taken(w, kind) ==
  is_cbranch(kind)
  /\ IF w.arch = "gfx12"
     THEN sq_wave_state_priv_scc_mask \in read_register(w, "state_priv")
     ELSE sq_wave_status_scc_mask \in read_register(w, "status")

(* amdgcn_architecture_t::simulate_instruction: the wave after the         *)
(* instruction and the new pc, if the wave did not terminate.              *)
amdgcn_simulate_instruction(w, pc, kind) ==
  IF is_cbranch(kind)
  THEN [w |-> w, has_pc |-> TRUE,
        new_pc |-> IF is_sequential(kind) \/ ~is_branch_taken(w, kind)
                   THEN NextAddr(pc) ELSE branch_target(pc)]
  ELSE IF is_endpgm(kind)
  THEN [w |-> terminate(w), has_pc |-> FALSE, new_pc |-> NoAddr]
  ELSE [w |-> dbgapi_assert(w, FALSE), has_pc |-> FALSE, new_pc |-> NoAddr]

(* The register and the bit that report a trap after an instruction.       *)
TrapAfterInstReg(a) == IF a = "gfx12" THEN "excp_flag_priv" ELSE "trapsts"

TrapAfterInstBit(a) ==
  IF a = "gfx12" THEN sq_wave_excp_priv_trap_after_inst_mask
  ELSE ExtTrapstsBit(a, "trap_after_inst")

(* The enable bit that simulate_instruction tests before it raises the     *)
(* trap after instruction exception.                                       *)
SimStepBit(a) ==
  CASE a = "gfx12" -> sq_wave_trap_ctrl_trap_after_inst_mask
    [] a = "gfx11" -> sq_wave_mode_trap_after_inst_en_mask
    [] OTHER -> sq_wave_mode_debug_en_mask

(* gfx940_t::simulate_instruction,                                         *)
(* gfx11_architecture_t::simulate_instruction,                             *)
(* gfx12_architecture_t::simulate_instruction                              *)
simulate_instruction(w, pc, kind) ==
  LET a == w.arch
      trap_after_inst(r) ==
        IF a \in {"gfx940", "gfx11", "gfx12"} /\ r.has_pc
           /\ SimStepBit(a) \in read_register(r.w, StepReg(a))
        THEN [r EXCEPT !.w = write_register(r.w, TrapAfterInstReg(a),
                               read_register(r.w, TrapAfterInstReg(a))
                               \cup {TrapAfterInstBit(a)})]
        ELSE r
  IN trap_after_inst(amdgcn_simulate_instruction(w, pc, kind))

(* amdgcn_architecture_t::simulate *)
simulate(w, pc, kind) ==
  LET w0 == dbgapi_assert(dbgapi_assert(w, w.m_state = SINGLE_STEP),
                          can_simulate(kind))
      status_reg == read_register(w0, "status")
      trap_handler(r) ==
        IF r.has_pc
        THEN simulate_trap_handler(r.w, r.new_pc, NoTrapId)
        ELSE r.w
  IN IF sq_wave_status_halt_mask \in status_reg
     THEN [w |-> w0, simulated |-> FALSE]
     ELSE [w |-> trap_handler(simulate_instruction(w0, pc, kind)),
           simulated |-> TRUE]


(* wave_t::set_state *)
set_state(w, state) ==
  LET prev_state == w.m_state
      w1 == [set_state_asserts(w, state) EXCEPT
               !.m_stop_requested = (state = STOP)]
      ds == w.m_displaced_stepping
      endpgm ==
        (ds.active /\ ds.is_simulated /\ is_endpgm(ds.original))
        \/ is_endpgm(instruction_at_pc(w))
      stepped(sim) ==
        IF sim.has_pc
        THEN raise_event([sim.w EXCEPT !.m_state = STOP,
                                       !.m_stop_reason = {"SINGLE_STEP"}],
                         "WAVE_STOP")
        ELSE set_state_tail(sim.w, prev_state, state)
  IN IF state = prev_state THEN w
     ELSE IF state = SINGLE_STEP /\ endpgm
     THEN raise_event(terminate(w1), "WAVE_COMMAND_TERMINATED")
     ELSE IF state = SINGLE_STEP /\ ds.active /\ ds.is_simulated
     THEN stepped(simulate_instruction(w1, ds.from, ds.original))
     ELSE set_state_tail(w1, prev_state, state)

(* A variant of update that forgets the stop reason of a wave that was     *)
(* already stopped at the previous update.                                 *)
update_forget(w) ==
  LET record(r) ==
        [r.w EXCEPT !.m_state = r.state, !.m_stop_reason = r.stop_reason]
      parked(w1) ==
        IF w1.m_state = STOP /\ ~can_halt_at_endpgm(w.arch)
        THEN park(w1) ELSE w1
      notify(w2) ==
        IF w2.m_visibility = "visible" /\ w2.m_state = STOP
           /\ w2.m_stop_reason # {}
        THEN raise_event(w2, "WAVE_STOP")
        ELSE w2
  IN IF w.m_state = STOP THEN [w EXCEPT !.m_stop_reason = {}]
     ELSE notify(parked(record(wave_get_state(w))))

(* A variant of update that raises the stop event of a stopped wave at     *)
(* every update, not only at the one that finds the wave stopped.          *)
update_renotify(w) ==
  LET record(r) ==
        [r.w EXCEPT !.m_state = r.state, !.m_stop_reason = r.stop_reason]
      parked(w1) ==
        IF w1.m_state = STOP /\ ~can_halt_at_endpgm(w.arch)
        THEN park(w1) ELSE w1
      notify(w2) ==
        IF w2.m_visibility = "visible" /\ w2.m_state = STOP
           /\ w2.m_stop_reason # {}
        THEN raise_event(w2, "WAVE_STOP")
        ELSE w2
  IN IF w.m_state = STOP THEN notify(w)
     ELSE notify(parked(record(wave_get_state(w))))

(* wave_t::update *)
update(w) ==
  LET record(r) ==
        [r.w EXCEPT !.m_state = r.state, !.m_stop_reason = r.stop_reason]
      parked(w1) ==
        IF w1.m_state = STOP /\ ~can_halt_at_endpgm(w.arch)
        THEN park(w1) ELSE w1
      notify(w2) ==
        IF w2.m_visibility = "visible" /\ w2.m_state = STOP
           /\ w2.m_stop_reason # {}
        THEN raise_event(w2, "WAVE_STOP")
        ELSE w2
  IN IF w.m_state = STOP THEN w
     ELSE notify(parked(record(wave_get_state(w))))

(* Address arithmetic pc + from - to of displaced_stepping_complete.       *)
AddrRebase(pc, from, to) ==
  [hi |-> pc.hi + from.hi - to.hi, lo |-> pc.lo + from.lo - to.lo]

(* wave_t::displaced_stepping_start: the wave and the status returned to   *)
(* the client (exceptions thrown are turned into statuses).                *)
displaced_stepping_start(w, original) ==
  LET w0 == dbgapi_assert(
              dbgapi_assert(w, ~w.m_displaced_stepping.active),
              w.m_state = STOP)
      sim == can_simulate(original)
      w1 == IF ~sim THEN [w0 EXCEPT !.mem.buffer = original] ELSE w0
      ds == [active |-> TRUE, from |-> pc_of(w0), is_simulated |-> sim,
             original |-> original,
             target |-> IF sim THEN NoAddr ELSE displaced_buffer_address]
      w2 == IF ~sim THEN write_register(w1, "pc", displaced_buffer_address)
            ELSE w1
  IN IF original = "none"
     THEN [w |-> w0, status |-> "ERROR_ILLEGAL_INSTRUCTION"]
     ELSE IF ~can_execute_displaced(original) /\ ~sim
     THEN [w |-> w0, status |-> "ERROR_ILLEGAL_INSTRUCTION"]
     ELSE [w |-> [w2 EXCEPT !.m_displaced_stepping = ds],
           status |-> "SUCCESS"]

(* A variant of displaced_stepping_complete that leaves the pc in the      *)
(* displaced instruction buffer.                                           *)
displaced_stepping_complete_in_place(w) ==
  LET w0 == dbgapi_assert(
              dbgapi_assert(w, w.m_displaced_stepping.active),
              w.m_state = STOP)
  IN [w0 EXCEPT !.m_displaced_stepping = NoDisplacedStepping]

(* wave_t::displaced_stepping_complete *)
displaced_stepping_complete(w) ==
  LET w0 == dbgapi_assert(
              dbgapi_assert(w, w.m_displaced_stepping.active),
              w.m_state = STOP)
      ds == w0.m_displaced_stepping
      w1 == IF ~ds.is_simulated
            THEN write_register(w0, "pc",
                   AddrRebase(pc_of(w0), ds.from, ds.target))
            ELSE w0
  IN [w1 EXCEPT !.m_displaced_stepping = NoDisplacedStepping]

(* The wave as the scoped queue suspension of an API call sees it: the     *)
(* waves of a queue are updated when the queue is suspended.               *)
scoped_queue_suspend(w, suspended) == IF suspended THEN w ELSE update(w)

(* amd_dbgapi_wave_stop *)
amd_dbgapi_wave_stop(w, suspended) ==
  IF client_visible_state(w) = STOP
  THEN [w |-> w, status |-> "ERROR_WAVE_STOPPED"]
  ELSE IF w.m_stop_requested
  THEN [w |-> w, status |-> "ERROR_WAVE_OUTSTANDING_STOP"]
  ELSE [w |-> set_state(scoped_queue_suspend(w, suspended), STOP),
        status |-> "SUCCESS"]

(* A variant of amd_dbgapi_wave_resume that does not reject a wave with a  *)
(* fatal stop reason.                                                      *)
amd_dbgapi_wave_resume_fatal(w, suspended, resume_mode) ==
  IF resume_mode \notin {RUN, SINGLE_STEP}
  THEN [w |-> w, status |-> "ERROR_INVALID_ARGUMENT"]
  ELSE IF client_visible_state(w) # STOP
  THEN [w |-> w, status |-> "ERROR_WAVE_NOT_STOPPED"]
  ELSE IF w.m_last_stop_event \in {"queued", "reported"}
  THEN [w |-> w, status |-> "ERROR_WAVE_NOT_RESUMABLE"]
  ELSE IF w.m_displaced_stepping.active /\ resume_mode # SINGLE_STEP
  THEN [w |-> w, status |-> "ERROR_RESUME_DISPLACED_STEPPING"]
  ELSE [w |-> set_state(scoped_queue_suspend(w, suspended), resume_mode),
        status |-> "SUCCESS"]

(* A variant of amd_dbgapi_wave_resume that does not look at the state of   *)
(* the last stop event.                                                    *)
amd_dbgapi_wave_resume_unprocessed(w, suspended, resume_mode) ==
  IF resume_mode \notin {RUN, SINGLE_STEP}
  THEN [w |-> w, status |-> "ERROR_INVALID_ARGUMENT"]
  ELSE IF client_visible_state(w) # STOP
  THEN [w |-> w, status |-> "ERROR_WAVE_NOT_STOPPED"]
  ELSE IF ~(w.m_stop_reason \subseteq resumable_stop_reason_mask)
  THEN [w |-> w, status |-> "ERROR_WAVE_NOT_RESUMABLE"]
  ELSE IF w.m_displaced_stepping.active /\ resume_mode # SINGLE_STEP
  THEN [w |-> w, status |-> "ERROR_RESUME_DISPLACED_STEPPING"]
  ELSE [w |-> set_state(scoped_queue_suspend(w, suspended), resume_mode),
        status |-> "SUCCESS"]

(* A variant of amd_dbgapi_wave_resume that resumes a wave with a          *)
(* displaced stepping operation in any mode.                               *)
amd_dbgapi_wave_resume_displaced(w, suspended, resume_mode) ==
  IF resume_mode \notin {RUN, SINGLE_STEP}
  THEN [w |-> w, status |-> "ERROR_INVALID_ARGUMENT"]
  ELSE IF client_visible_state(w) # STOP
  THEN [w |-> w, status |-> "ERROR_WAVE_NOT_STOPPED"]
  ELSE IF ~(w.m_stop_reason \subseteq resumable_stop_reason_mask)
  THEN [w |-> w, status |-> "ERROR_WAVE_NOT_RESUMABLE"]
  ELSE IF w.m_last_stop_event \in {"queued", "reported"}
  THEN [w |-> w, status |-> "ERROR_WAVE_NOT_RESUMABLE"]
  ELSE [w |-> set_state(scoped_queue_suspend(w, suspended), resume_mode),
        status |-> "SUCCESS"]

(* amd_dbgapi_wave_resume; resume_mode is the wave state asked for.        *)
amd_dbgapi_wave_resume(w, suspended, resume_mode) ==
  IF resume_mode \notin {RUN, SINGLE_STEP}
  THEN [w |-> w, status |-> "ERROR_INVALID_ARGUMENT"]
  ELSE IF client_visible_state(w) # STOP
  THEN [w |-> w, status |-> "ERROR_WAVE_NOT_STOPPED"]
  ELSE IF ~(w.m_stop_reason \subseteq resumable_stop_reason_mask)
  THEN [w |-> w, status |-> "ERROR_WAVE_NOT_RESUMABLE"]
  ELSE IF w.m_last_stop_event \in {"queued", "reported"}
  THEN [w |-> w, status |-> "ERROR_WAVE_NOT_RESUMABLE"]
  ELSE IF w.m_displaced_stepping.active /\ resume_mode # SINGLE_STEP
  THEN [w |-> w, status |-> "ERROR_RESUME_DISPLACED_STEPPING"]
  ELSE [w |-> set_state(scoped_queue_suspend(w, suspended), resume_mode),
        status |-> "SUCCESS"]


(***************************************************************************)
(* The hardware: it executes the instruction at the PC of a wave that is   *)
(* not halted, raises exception flags, and enters the trap handler, whose  *)
(* effect on the registers is the one simulate_trap_handler reproduces.    *)
(***************************************************************************)
HwExcps == {"inexact", "invalid", "mem_viol"}

TrapImms == {2, 3, 21}

hw_raise(w, e) ==
  IF w.arch = "gfx12"
  THEN IF e \in UserExceptions
       THEN [w EXCEPT !.regs.excp_flag_user = @ \cup {ExcpUserBit(e)}]
       ELSE [w EXCEPT !.regs.excp_flag_priv = @ \cup {ExcpPrivBit(e)}]
  ELSE [w EXCEPT !.regs.trapsts = @ \cup {TrapstsBit(e)}]

hw_traps(w, e) ==
  e \notin MaskableExceptions
  \/ IF w.arch = "gfx12" THEN TrapCtrlBit(e) \in w.regs.trap_ctrl
     ELSE ModeEnBit(e) \in w.regs.mode

hw_scc(w) ==
  IF w.arch = "gfx12" THEN sq_wave_state_priv_scc_mask \in w.regs.state_priv
  ELSE sq_wave_status_scc_mask \in w.regs.status

hw_stepping(w) == StepBit(w.arch) \in w.regs[StepReg(w.arch)]

hw_trap_after_inst(w) ==
  IF w.arch \in {"gfx940", "gfx11", "gfx12"}
  THEN [w EXCEPT !.regs[TrapAfterInstReg(w.arch)] =
                   @ \cup {TrapAfterInstBit(w.arch)}]
  ELSE w

(* The wave after the hardware has executed the instruction at its PC,     *)
(* raising exception e ("none": no exception).                             *)
hw_execute(w, e) ==
  LET pc == w.regs.pc
      kind == instruction_at(w.mem, pc)
      taken == hw_scc(w)
      new_pc == IF kind = "cbranch" /\ taken THEN branch_target(pc)
                ELSE NextAddr(pc)
      w1 == [w EXCEPT !.regs.pc = new_pc]
      w2 == IF e # "none" THEN hw_raise(w1, e) ELSE w1
      w3 == IF hw_stepping(w) THEN hw_trap_after_inst(w2) ELSE w2
  IN CASE kind \in {"seq", "cbranch"} ->
            IF hw_stepping(w) \/ (e # "none" /\ hw_traps(w, e))
            THEN simulate_trap_handler(w3, new_pc, NoTrapId)
            ELSE w3
       [] kind = "trap" ->
            simulate_trap_handler(w, pc, trap_id_at(w.mem, pc, w.trap_imm))
       [] kind = "sethalt" ->
            [w1 EXCEPT !.regs[HaltReg(w.arch)] = @ \cup {HaltBit(w.arch)}]
       [] kind = "endpgm" -> [w EXCEPT !.alive = FALSE]
       [] OTHER ->
            simulate_trap_handler(hw_raise(w, "illegal_inst"), pc, NoTrapId)

(* The stop reasons whose cause the hardware raises when it executes the   *)
(* instruction at the PC with exception e.                                 *)
hw_raised_reasons(w, e) ==
  LET kind == instruction_at(w.mem, w.regs.pc)
  IN CASE kind \in {"seq", "cbranch"} ->
            (IF e # "none" THEN ExceptionStopReasons({e}) ELSE {})
            \cup (IF hw_stepping(w) THEN {"SINGLE_STEP"} ELSE {})
       [] kind = "trap" ->
            TrapIdStopReasons(trap_id_at(w.mem, w.regs.pc, w.trap_imm)
                              % Pow2(ttmp6_saved_trap_id_size))
       [] kind = "none" -> {"ILLEGAL_INSTRUCTION"}
       [] OTHER -> {}


(***************************************************************************)
(* State.                                                                  *)
(*   wave        the wave object and its hardware registers                *)
(*   q_suspended whether the queue that owns the wave is suspended         *)
(*   api_status  the result of the last call, get_state excepted           *)
(*   hw_excps    number of exceptions the hardware has raised              *)
(*   resumes     number of times the wave has been resumed                 *)
(*   reported    stop reasons reported for the stop the wave was last      *)
(*               resumed from, and the stop reasons whose cause the        *)
(*               hardware has raised since that resume                     *)
(*   observed    the results of the last two get_state calls when nothing  *)
(*               happened between them                                     *)
(*   call        the arguments and the result of a call of a function that *)
(*               does not act on the wave (none while the wave runs)       *)
(***************************************************************************)
VARIABLES wave, q_suspended, api_status, hw_excps, resumes, reported, observed,
          call

vars ==
  <<wave, q_suspended, api_status, hw_excps, resumes, reported, observed, call>>

AllExcpEn ==
  {sq_wave_mode_excp_en_invalid_mask, sq_wave_mode_excp_en_input_denorm_mask,
   sq_wave_mode_excp_en_div0_mask, sq_wave_mode_excp_en_overflow_mask,
   sq_wave_mode_excp_en_underflow_mask, sq_wave_mode_excp_en_inexact_mask,
   sq_wave_mode_excp_en_int_div0_mask, sq_wave_mode_excp_en_addr_watch_mask}

AllTrapCtrl ==
  {sq_wave_trap_ctrl_alu_invalid_mask, sq_wave_trap_ctrl_alu_input_denorm_mask,
   sq_wave_trap_ctrl_alu_float_div0_mask, sq_wave_trap_ctrl_alu_overflow_mask,
   sq_wave_trap_ctrl_alu_underflow_mask, sq_wave_trap_ctrl_alu_inexact_mask,
   sq_wave_trap_ctrl_alu_int_div0_mask, sq_wave_trap_ctrl_addr_watch_mask}

RVersions(a) == IF a \in {"gfx11", "gfx12"} THEN {8, 10} ELSE {10}

InitRegs(a, pc, scc, excp_en) ==
  [pc |-> pc,
   status |-> IF scc /\ a # "gfx12" THEN {sq_wave_status_scc_mask} ELSE {},
   mode |-> IF excp_en /\ a # "gfx12" THEN AllExcpEn ELSE {},
   trapsts |-> {},
   ttmp6 |-> [wave_stopped |-> FALSE, saved_status_halt |-> FALSE,
              saved_trap_id |-> 0],
   ttmp7 |-> 0,
   ttmp10 |-> 0,
   ttmp11 |-> [saved_pc_hi |-> 0],
   state_priv |-> IF scc /\ a = "gfx12"
                  THEN {sq_wave_state_priv_scc_mask} ELSE {},
   trap_ctrl |-> IF excp_en /\ a = "gfx12" THEN AllTrapCtrl ELSE {},
   excp_flag_priv |-> {},
   excp_flag_user |-> {}]

(* wave_t::wave_t: a wave is created in the run state.                     *)
InitWave(a, rv, imm, pc, scc, excp_en) ==
  [arch |-> a, r_version |-> rv, trap_imm |-> imm, aborted |-> FALSE,
   alive |-> TRUE, m_state |-> RUN, m_stop_reason |-> {},
   m_stop_requested |-> FALSE, m_is_parked |-> FALSE,
   m_parked_pc |-> NoAddr, m_last_stopped_pc |-> NoAddr,
   m_visibility |-> "visible", m_displaced_stepping |-> NoDisplacedStepping,
   m_last_stop_event |-> "none", last_event_kind |-> "none",
   stop_events |-> 0, stop_succeeded |-> FALSE,
   mem |-> [buffer |-> "none", breakpoint |-> TRUE],
   regs |-> InitRegs(a, pc, scc, excp_en)]

(* The wave is first seen at the start of the program or in its middle.    *)
InitPcs == {Addr(0), Addr(3)}

NoObservation ==
  [n |-> 0, prev_state |-> RUN, prev_reason |-> {},
   cur_state |-> RUN, cur_reason |-> {}]

(* No call of a function outside the wave state machine.  *)
NoCall == [fn |-> "none"]

Init ==
  /\ call = NoCall
  /\ \E a \in Archs : \E rv \in RVersions(a) : \E imm \in TrapImms :
       \E pc \in InitPcs : \E scc \in BOOLEAN : \E excp_en \in BOOLEAN :
         wave = InitWave(a, rv, imm, pc, scc, excp_en)
  /\ q_suspended = FALSE
  /\ api_status = "NONE"
  /\ hw_excps = 0
  /\ resumes = 0
  /\ reported = [previous |-> {}, raised |-> {}]
  /\ observed = NoObservation

(* The hardware raises the causes of stop reasons: only those that were    *)
(* reported for the previous stop are recorded.                            *)
Raise(reasons) ==
  [reported EXCEPT !.raised = @ \cup (reasons \cap reported.previous)]

(* A failed assertion ends the process: the wave is left as it was.        *)
Commit(w) ==
  wave' = IF w.aborted THEN [wave EXCEPT !.aborted = TRUE] ELSE w

Live == wave.alive /\ ~wave.aborted

(***************************************************************************)
(* Hardware steps.                                                         *)
(***************************************************************************)
HwExec ==
  /\ UNCHANGED call
  /\ Live /\ ~q_suspended /\ ~HwHalted(wave)
  /\ \E e \in HwExcps \cup {"none"} :
       /\ e # "none" =>
            /\ hw_excps < MaxHwExcp
            /\ instruction_at(wave.mem, wave.regs.pc) = "seq"
       /\ Commit(hw_execute(wave, e))
       /\ hw_excps' = IF e # "none" THEN hw_excps + 1 ELSE hw_excps
       /\ reported' = Raise(hw_raised_reasons(wave, e))
  /\ observed' = NoObservation
  /\ UNCHANGED <<q_suspended, resumes>>
  /\ api_status' = "NONE"

HwSpuriousTrap ==
  /\ UNCHANGED call
  /\ Live /\ ~q_suspended /\ ~HwHalted(wave)
  /\ wave.arch \in {"gfx9", "gfx10_1", "gfx10_3"}
  /\ hw_stepping(wave)
  /\ Commit(simulate_trap_handler(wave, wave.regs.pc, NoTrapId))
  /\ reported' = Raise({"SINGLE_STEP"})
  /\ observed' = NoObservation
  /\ UNCHANGED <<q_suspended, hw_excps, resumes>>
  /\ api_status' = "NONE"


(***************************************************************************)
(* Queue suspension and get_state.                                         *)
(***************************************************************************)
Observe(w) ==
  [n |-> IF observed.n = 0 THEN 1 ELSE 2,
   prev_state |-> observed.cur_state, prev_reason |-> observed.cur_reason,
   cur_state |-> w.m_state, cur_reason |-> w.m_stop_reason]

(* The queue is suspended and its waves are updated: the first get_state   *)
(* after the hardware has run.                                             *)
QueueSuspend ==
  /\ UNCHANGED call
  /\ Live /\ ~q_suspended
  /\ q_suspended' = TRUE
  /\ \E w \in {update(wave)} :
       /\ Commit(w)
       /\ observed' = IF w.aborted THEN NoObservation ELSE Observe(w)
  /\ UNCHANGED <<hw_excps, resumes, reported>>
  /\ api_status' = "NONE"

QueueResume ==
  /\ UNCHANGED call
  /\ Live /\ q_suspended
  /\ q_suspended' = FALSE
  /\ observed' = NoObservation
  /\ UNCHANGED <<wave, hw_excps, resumes, reported>>
  /\ api_status' = "NONE"

(* get_state: wave_t::update on a suspended queue, followed by reading     *)
(* the state and the stop reason of the wave.                              *)
GetState ==
  /\ UNCHANGED call
  /\ Live /\ q_suspended
  /\ \E w \in {update(wave)} :
       /\ Commit(w)
       /\ observed' = IF w.aborted THEN NoObservation ELSE Observe(w)
  /\ UNCHANGED <<q_suspended, api_status, hw_excps, resumes, reported>>

(***************************************************************************)
(* Client calls.                                                           *)
(***************************************************************************)
WaveStop ==
  /\ UNCHANGED call
  /\ Live /\ ~q_suspended
  /\ \E r \in {amd_dbgapi_wave_stop(wave, q_suspended)} :
       /\ Commit(IF r.status = "SUCCESS"
                 THEN [r.w EXCEPT !.stop_succeeded = TRUE] ELSE r.w)
       /\ api_status' = r.status
  /\ observed' = NoObservation
  /\ UNCHANGED <<q_suspended, hw_excps, resumes, reported>>

WaveResume ==
  /\ UNCHANGED call
  /\ Live /\ ~q_suspended /\ resumes < MaxResume
  /\ \E resume_mode \in {RUN, SINGLE_STEP} :
     \E r \in {amd_dbgapi_wave_resume(wave, q_suspended, resume_mode)} :
       LET resumed == r.status = "SUCCESS" /\ ~r.w.aborted
       IN /\ Commit(IF resumed
                    THEN [r.w EXCEPT !.stop_succeeded = FALSE] ELSE r.w)
          /\ api_status' = r.status
          /\ resumes' = IF resumed THEN resumes + 1 ELSE resumes
          /\ reported' =
               IF resumed
               THEN [previous |-> wave.m_stop_reason,
                     raised |-> IF r.w.m_state = STOP
                                THEN {"SINGLE_STEP"} \cap wave.m_stop_reason
                                ELSE {}]
               ELSE reported
  /\ observed' = NoObservation
  /\ UNCHANGED <<q_suspended, hw_excps>>

(* The client puts the original instruction back in place of the          *)
(* breakpoint while the wave is stopped.                                   *)
RemoveBreakpoint ==
  /\ UNCHANGED call
  /\ Live /\ ~q_suspended
  /\ wave.m_state = STOP /\ wave.mem.breakpoint
  /\ wave' = [wave EXCEPT !.mem.breakpoint = FALSE]
  /\ api_status' = "NONE"
  /\ observed' = NoObservation
  /\ UNCHANGED <<q_suspended, hw_excps, resumes, reported>>

(* amdgcn_architecture_t::simulate on a single-stepping wave whose         *)
(* instruction at pc can be simulated.                                     *)
Simulate ==
  /\ UNCHANGED call
  /\ Live /\ q_suspended /\ wave.m_state = SINGLE_STEP
  /\ can_simulate(instruction_at_pc(wave))
  /\ \E r \in {simulate(wave, pc_of(wave), instruction_at_pc(wave))} :
       /\ Commit(r.w)
       /\ api_status' = IF r.simulated THEN "SIMULATED" ELSE "NOT_SIMULATED"
       /\ reported' =
            IF r.simulated
            THEN Raise({"SINGLE_STEP"})
            ELSE reported
  /\ observed' = NoObservation
  /\ UNCHANGED <<q_suspended, hw_excps, resumes>>

(* The client fetches the stop event, then marks it processed.  *)
EventReported ==
  /\ UNCHANGED call
  /\ Live /\ wave.m_last_stop_event = "queued"
  /\ wave' = [wave EXCEPT !.m_last_stop_event = "reported"]
  /\ observed' = NoObservation
  /\ UNCHANGED <<q_suspended, hw_excps, resumes, reported>>
  /\ api_status' = "NONE"

EventProcessed ==
  /\ UNCHANGED call
  /\ Live /\ wave.m_last_stop_event = "reported"
  /\ wave' = [wave EXCEPT !.m_last_stop_event = "processed"]
  /\ observed' = NoObservation
  /\ UNCHANGED <<q_suspended, hw_excps, resumes, reported>>
  /\ api_status' = "NONE"

Next ==
  \/ HwExec
  \/ HwSpuriousTrap
  \/ QueueSuspend
  \/ QueueResume
  \/ GetState
  \/ WaveStop
  \/ WaveResume
  \/ RemoveBreakpoint
  \/ Simulate
  \/ EventReported
  \/ EventProcessed

Spec == Init /\ [][Next]_vars

(***************************************************************************)
(* Properties.                                                             *)
(***************************************************************************)
LegalTransitions ==
  {<<STOP, RUN>>, <<STOP, SINGLE_STEP>>, <<RUN, STOP>>, <<SINGLE_STEP, STOP>>}

(* C1: across stop requests, resume requests, state refreshes and          *)
(* terminations, every change of the wave's state is one of stop->run,     *)
(* stop->single-step, run->stop or single-step->stop; the state never      *)
(* changes directly from run to single-step (nor from single-step to run). *)
C1_LegalStateChanges ==
  [][wave'.m_state # wave.m_state
       => <<wave.m_state, wave'.m_state>> \in LegalTransitions]_vars

(* A wave that was stopped, resumed in single-step mode and has stopped    *)
(* again at the end of the step.                                           *)
C1_Witness ==
  /\ wave.m_state = STOP /\ resumes = 1
  /\ "SINGLE_STEP" \in wave.m_stop_reason
  /\ wave.m_last_stop_event = "queued"

HasFatalStopReason(w) ==
  w.m_state = STOP /\ ~(w.m_stop_reason \subseteq resumable_stop_reason_mask)

(* C2: a stopped wave whose stop reason contains a fatal bit is never      *)
(* moved to run or single-step: no step resumes it, reaches the assertion  *)
(* of the state machine, or changes its state or its stop reason.          *)
C2_FatalNeverResumed ==
  [][(Live /\ HasFatalStopReason(wave))
       => /\ wave'.m_state = STOP
          /\ wave'.m_stop_reason = wave.m_stop_reason
          /\ ~wave'.aborted
          /\ resumes' = resumes]_vars

(* A resume request on a wave with a fatal stop reason, whose stop event   *)
(* has been processed, has been rejected.                                  *)
C2_Witness ==
  /\ HasFatalStopReason(wave)
  /\ wave.m_last_stop_event = "processed"
  /\ api_status = "ERROR_WAVE_NOT_RESUMABLE"

(* C3: at a stop that follows a resume, no resumable stop reason reported  *)
(* for the stop the wave was resumed from is reported again, unless the    *)
(* hardware has raised its cause again since the resume.                   *)
C3_NoStaleStopReason ==
  (wave.m_state = STOP /\ resumes > 0)
    => (wave.m_stop_reason \cap reported.previous
          \cap resumable_stop_reason_mask) \subseteq reported.raised

(* C4: two calls of get_state in a row, with no hardware change and no     *)
(* other operation in between, return the same (state, stop_reason) pair   *)
(* on every architecture generation.                                       *)
C4_GetStateTwice ==
  observed.n = 2
    => /\ observed.prev_state = observed.cur_state
       /\ observed.prev_reason = observed.cur_reason

(* get_state has been called twice in a row on a wave that the first call  *)
(* found stopped by the trap handler with a stop reason.                   *)
C4_Witness ==
  /\ observed.n = 2
  /\ observed.prev_state = STOP
  /\ observed.prev_reason # {}

(* The wave that set_state of a client call acts on: the client call       *)
(* suspends the queue, which updates the wave.                             *)
CallWave == scoped_queue_suspend(wave, q_suspended)

(* A step that is a successful amd_dbgapi_wave_stop.                       *)
StopCall == WaveStop /\ api_status' = "SUCCESS" /\ ~wave'.aborted

(* A step that is a successful amd_dbgapi_wave_resume.                     *)
ResumeCall == WaveResume /\ api_status' = "SUCCESS" /\ ~wave'.aborted

(* C5: set_state(stop) on a wave that is not stopped leaves the hardware   *)
(* with the wave-stopped latch set, the halt bit set, and the saved-halt   *)
(* bit equal to the halt bit immediately before the call.                  *)
C5_SetStateStop ==
  [][(StopCall /\ CallWave.m_state # STOP)
       => /\ wave'.m_state = STOP
          /\ wave'.regs.ttmp6.wave_stopped
          /\ HwHalted(wave')
          /\ wave'.regs.ttmp6.saved_status_halt = HwHalted(CallWave)]_vars

(* A stop request has stopped a running wave that had halted itself.       *)
C5_Witness ==
  /\ wave.m_state = STOP /\ wave.m_stop_reason = {}
  /\ wave.last_event_kind = "WAVE_STOP"
  /\ wave.regs.ttmp6.wave_stopped
  /\ wave.regs.ttmp6.saved_status_halt
  /\ api_status = "SUCCESS"

(* C6: set_state(run) or set_state(single-step) on a stopped wave leaves   *)
(* the hardware halt bit equal to the saved-halt bit recorded while        *)
(* stopped, the wave-stopped latch cleared, and the single-step control    *)
(* bit set exactly when the new state is single-step.                      *)
C6_SetStateResume ==
  [][(ResumeCall /\ CallWave.m_state = STOP)
       => /\ wave'.m_state \in {RUN, SINGLE_STEP}
          /\ HwHalted(wave') = CallWave.regs.ttmp6.saved_status_halt
          /\ ~wave'.regs.ttmp6.wave_stopped
          /\ hw_stepping(wave') = (wave'.m_state = SINGLE_STEP)]_vars

(* A wave that was halted when it was stopped has been resumed in          *)
(* single-step mode: it is halted again.                                   *)
C6_Witness ==
  /\ wave.m_state = SINGLE_STEP /\ api_status = "SUCCESS"
  /\ HwHalted(wave) /\ hw_stepping(wave)
  /\ ~wave.regs.ttmp6.wave_stopped

(* C7: simulate on a wave whose hardware halt bit is set returns           *)
(* not-simulated and changes no register of the wave, on every             *)
(* architecture generation.                                                *)
C7_HaltedNotSimulated ==
  [][(Simulate /\ HwHalted(wave))
       => /\ api_status' = "NOT_SIMULATED"
          /\ wave'.regs = wave.regs]_vars

(* The wave after a trap-handler entry at address pc with trap id id       *)
(* (0: none), the halt bit having been halt before the entry.              *)
TrapHandlerEntered(pc, id, halt) ==
  /\ wave'.regs.ttmp6.wave_stopped
  /\ wave'.regs.ttmp6.saved_trap_id = id
  /\ wave'.regs.ttmp6.saved_status_halt = halt
  /\ HwHalted(wave')
  /\ IF park_stopped_waves(wave.arch, wave.r_version)
     THEN /\ wave'.regs.pc = park_instruction_address
          /\ saved_parked_pc(wave') = pc
     ELSE wave'.regs.pc = pc

(* The address of the instruction that follows the conditional branch at   *)
(* pc in the execution of the wave.                                        *)
StepTarget(pc) ==
  IF hw_scc(wave)
  THEN [pc EXCEPT !.lo = pc.lo + 8] ELSE [pc EXCEPT !.lo = pc.lo + 4]

(* A step in which simulate has simulated a branch and entered the trap    *)
(* handler with no trap id.                                                *)
SimulatedEntry ==
  /\ Simulate /\ api_status' = "SIMULATED" /\ ~wave'.aborted
  /\ instruction_at_pc(wave) = "cbranch"

(* A step in which the trap handler is entered for an s_trap whose id is   *)
(* one of the trap ids of trap_id_t.                                       *)
TrapEntry ==
  /\ HwExec /\ instruction_at(wave.mem, wave.regs.pc) = "trap"
  /\ trap_id_at(wave.mem, wave.regs.pc, wave.trap_imm)
       \in {trap_id_breakpoint, trap_id_assert_trap, trap_id_debug_trap}

(* C8: a simulated trap-handler entry at address pc leaves the wave with   *)
(* the wave-stopped latch set, the saved trap id equal to the given trap   *)
(* id (zero if none was given), the saved-halt bit equal to the halt bit   *)
(* before the call, the hardware halt bit set, and the pc equal to pc, or, *)
(* on generations that park stopped waves, the hardware pc equal to the    *)
(* park address with pc saved in trap temporaries and recoverable.         *)
C8_TrapHandlerEntry ==
  [][/\ SimulatedEntry
          => TrapHandlerEntered(StepTarget(pc_of(wave)), 0, HwHalted(wave))
     /\ TrapEntry
          => TrapHandlerEntered(
               wave.regs.pc,
               trap_id_at(wave.mem, wave.regs.pc, wave.trap_imm),
               HwHalted(wave))]_vars

(* simulate has entered the trap handler on a generation that parks        *)
(* stopped waves: the hardware pc is the park address and the saved pc is  *)
(* an address of the program.                                              *)
C8_Witness ==
  /\ api_status = "SIMULATED"
  /\ park_stopped_waves(wave.arch, wave.r_version)
  /\ wave.regs.pc = park_instruction_address
  /\ saved_parked_pc(wave) \in CodeAddrs
  /\ wave.regs.ttmp6.wave_stopped
  /\ wave.regs.ttmp6.saved_trap_id = 0

(* C9: when a running wave has entered the trap handler for a breakpoint   *)
(* trap (saved trap id 1) and no exception is signaled, get_state returns  *)
(* the stop state with a stop reason equal to BREAKPOINT.                  *)
C9_BreakpointStop ==
  [][(/\ QueueSuspend
      /\ wave.m_state = RUN
      /\ wave.regs.ttmp6.wave_stopped
      /\ wave.regs.ttmp6.saved_trap_id = trap_id_breakpoint
      /\ signaled_exceptions(wave) = {})
       => /\ observed'.n = 1
          /\ observed'.cur_state = STOP
          /\ observed'.cur_reason = {"BREAKPOINT"}
          /\ wave'.m_state = STOP
          /\ wave'.m_stop_reason = {"BREAKPOINT"}]_vars

(* get_state has found a wave, which was running, stopped at the           *)
(* breakpoint.                                                             *)
C9_Witness ==
  /\ observed.n = 1
  /\ observed.cur_state = STOP
  /\ observed.cur_reason = {"BREAKPOINT"}
  /\ resumes = 0
  /\ pc_of(wave) = BreakpointAddr

(* C10: after a wave stopped at a breakpoint is resumed in single-step     *)
(* mode and the step ends through the simulated trap-handler entry with    *)
(* parking in effect, get_state finds the wave in the stop state with a    *)
(* stop reason that includes SINGLE_STEP, and the pc of the wave reads as  *)
(* the address of the next instruction, not as the park address.           *)
C10_StepFromBreakpoint ==
  [][(/\ GetState
      /\ api_status = "SIMULATED"
      /\ "BREAKPOINT" \in reported.previous
      /\ wave.m_state = SINGLE_STEP
      /\ wave.regs.ttmp6.wave_stopped
      /\ park_stopped_waves(wave.arch, wave.r_version))
       => /\ wave'.m_state = STOP
          /\ "SINGLE_STEP" \in wave'.m_stop_reason
          /\ observed'.cur_state = STOP
          /\ "SINGLE_STEP" \in observed'.cur_reason
          /\ pc_of(wave') = StepTarget(wave.m_last_stopped_pc)
          /\ pc_of(wave') # park_instruction_address]_vars

(* The wave was stopped at the breakpoint, resumed in single-step mode,    *)
(* the step was simulated with parking in effect, and get_state has found  *)
(* the wave stopped.                                                       *)
C10_Witness ==
  /\ api_status = "SIMULATED"
  /\ "BREAKPOINT" \in reported.previous
  /\ park_stopped_waves(wave.arch, wave.r_version)
  /\ observed.n = 1
  /\ observed.cur_state = STOP
  /\ "SINGLE_STEP" \in observed.cur_reason
  /\ wave.m_last_stopped_pc = BreakpointAddr
  /\ pc_of(wave) \in CodeAddrs

(***************************************************************************)
(* CWSR records: the view of one wave's slice of the context save area,    *)
(* built from the relaunch words of the control stack.                     *)
(*                                                                         *)
(* A 32-bit relaunch word is the pair of its bits 31:30 (tag) and of its   *)
(* bits 29:0 (payload).                                                    *)
(***************************************************************************)
CwsrArchs == {"gfx9", "gfx908", "gfx940", "gfx10_1", "gfx11", "gfx12"}

IsGfx9Cwsr(a) == a \in {"gfx9", "gfx908", "gfx940"}

(* utils::bit_extract on a value below 2^30 *)
bit_extract(value, first, last) ==
  (value \div Pow2(first)) % Pow2(last - first + 1)

(* amdgcn_architecture_t::compute_relaunch_is_event: bit 30 *)
compute_relaunch_is_event(relaunch) == relaunch.tag % 2 = 1

(* amdgcn_architecture_t::compute_relaunch_is_state: bit 31 *)
compute_relaunch_is_state(relaunch) == relaunch.tag \div 2 = 1

(* The register numbers, amdgpu_regnum_t: four classes of 256 vector       *)
(* registers, the scalar registers and their shadows, the hardware         *)
(* register block, the trap temporaries, and then the registers that have  *)
(* a name of their own.                                                    *)
first_vgpr_32 == 0
last_vgpr_32 == first_vgpr_32 + 255
first_vgpr_64 == last_vgpr_32 + 1
last_vgpr_64 == first_vgpr_64 + 255
first_accvgpr_32 == last_vgpr_64 + 1
last_accvgpr_32 == first_accvgpr_32 + 255
first_accvgpr_64 == last_accvgpr_32 + 1
last_accvgpr_64 == first_accvgpr_64 + 255
first_vgpr == first_vgpr_32
last_vgpr == last_accvgpr_64
first_sgpr == last_vgpr + 1
last_sgpr == first_sgpr + 111
first_shadow_sgpr == last_sgpr + 1
last_shadow_sgpr == first_shadow_sgpr + 111
first_hwreg == last_shadow_sgpr + 1
last_hwreg == first_hwreg + 15
first_ttmp == last_hwreg + 1
last_ttmp == first_ttmp + 15
regnum_pc == last_ttmp + 1
regnum_m0 == last_ttmp + 2
regnum_status == last_ttmp + 3
regnum_trapsts == last_ttmp + 4
regnum_mode == last_ttmp + 5
regnum_exec_32 == last_ttmp + 6
regnum_exec_64 == last_ttmp + 7
regnum_exec_lo == last_ttmp + 8
regnum_exec_hi == last_ttmp + 9
regnum_vcc_32 == last_ttmp + 10
regnum_vcc_64 == last_ttmp + 11
regnum_vcc_lo == last_ttmp + 12
regnum_vcc_hi == last_ttmp + 13
regnum_xnack_mask_32 == last_ttmp + 14
regnum_xnack_mask_64 == last_ttmp + 15
regnum_xnack_mask_lo == last_ttmp + 16
regnum_xnack_mask_hi == last_ttmp + 17
regnum_flat_scratch == last_ttmp + 18
regnum_flat_scratch_lo == last_ttmp + 19
regnum_flat_scratch_hi == last_ttmp + 20
regnum_lds_0 == last_ttmp + 21
regnum_state_priv == last_ttmp + 22
regnum_excp_flag_priv == last_ttmp + 23
regnum_excp_flag_user == last_ttmp + 24
regnum_trap_ctrl == last_ttmp + 25

(* The results of register_address that are not an address: std::nullopt,  *)
(* and a failed assertion.                                                 *)
NotPresent == -1
AssertFailed == -2

(* gfx9_architecture_t::scalar_register_count and its gfx10 override *)
scalar_register_count(a) == IF IsGfx9Cwsr(a) THEN 102 ELSE 106

(* gfx9_architecture_t::scalar_alias_count and its gfx10 override *)
scalar_alias_count(a) == IF IsGfx9Cwsr(a) THEN 6 ELSE 2

(* A CWSR record is                                                        *)
(*   [arch, relaunch_wave, relaunch_state, relaunch2_state: payloads,      *)
(*    context_save_address, no_vgprs]                                      *)
(* where no_vgprs is bit 24 of the status register of the wave in the      *)
(* save area.                                                              *)

(* cwsr_record_t::is_first_wave *)
cwsr_is_first_wave(rec) ==
  IF IsGfx9Cwsr(rec.arch)
  THEN bit_extract(rec.relaunch_wave, 17, 17) = 1
  ELSE bit_extract(rec.relaunch_wave, 12, 12) = 1

(* cwsr_record_t::lds_size *)
cwsr_lds_size(rec) ==
  (CASE rec.arch \in {"gfx9", "gfx908"} ->
          bit_extract(rec.relaunch_state, 9, 17)
     [] rec.arch = "gfx940" -> bit_extract(rec.relaunch_state, 9, 16)
     [] OTHER -> bit_extract(rec.relaunch_state, 10, 17)) * 128 * 4

(* cwsr_record_t::lane_count *)
cwsr_lane_count(rec) ==
  IF IsGfx9Cwsr(rec.arch) THEN 64
  ELSE IF bit_extract(rec.relaunch_state, 24, 24) = 1 THEN 32 ELSE 64

(* cwsr_record_t::vgpr_count *)
cwsr_vgpr_count(rec) ==
  CASE rec.arch \in {"gfx9", "gfx908"} ->
         (bit_extract(rec.relaunch_state, 0, 5) + 1) * 4
    [] rec.arch = "gfx940" ->
         (bit_extract(rec.relaunch_state, 24, 29) + 1) * 4
    [] OTHER ->
         (1 + bit_extract(rec.relaunch_state, 0, 5))
         * (IF bit_extract(rec.relaunch_state, 24, 24) = 1 THEN 8 ELSE 4)

(* gfx908_t::cwsr_record_t::acc_vgpr_count,                                *)
(* gfx90a_t::cwsr_record_t::acc_vgpr_count                                 *)
cwsr_acc_vgpr_count(rec) ==
  IF rec.arch = "gfx908" THEN cwsr_vgpr_count(rec)
  ELSE (bit_extract(rec.relaunch_state, 0, 5) + 1) * 8 - cwsr_vgpr_count(rec)

(* cwsr_record_t::sgpr_count *)
cwsr_sgpr_count(rec) ==
  IF IsGfx9Cwsr(rec.arch)
  THEN (bit_extract(rec.relaunch_state, 6, 8) + 1) * 16 - 16
  ELSE 128

(* gfx10_architecture_t::cwsr_record_t::shared_vgpr_count *)
cwsr_shared_vgpr_count(rec) == bit_extract(rec.relaunch_state, 26, 29) * 8

Min(x, y) == IF x < y THEN x ELSE y

(* gfx9_architecture_t::cwsr_record_t::register_address *)
gfx9_register_address(rec, regnum) ==
  LET a == rec.arch
      save_area_addr ==
        IF cwsr_is_first_wave(rec)
        THEN rec.context_save_address - cwsr_lds_size(rec)
        ELSE rec.context_save_address
      ttmps_addr == save_area_addr - 16 * 4
      hwregs_addr == ttmps_addr - 16 * 4
      sgprs_addr == hwregs_addr - cwsr_sgpr_count(rec) * 4
      vgprs_addr == sgprs_addr - cwsr_vgpr_count(rec) * 4 * 64
      aliased_sgpr_end ==
        first_sgpr + Min(scalar_register_count(a) + scalar_alias_count(a),
                         cwsr_sgpr_count(rec))
      shadow_sgpr_end == aliased_sgpr_end + (first_shadow_sgpr - first_sgpr)
      hwreg_renamed(r) ==
        CASE r = regnum_m0 -> first_hwreg + 0
          [] r = regnum_pc -> first_hwreg + 1
          [] r \in {regnum_exec_lo, regnum_exec_64} -> first_hwreg + 3
          [] r = regnum_exec_hi -> first_hwreg + 4
          [] r = regnum_status -> first_hwreg + 5
          [] r = regnum_trapsts -> first_hwreg + 6
          [] r \in {regnum_xnack_mask_lo, regnum_xnack_mask_64} ->
               first_hwreg + 7
          [] r = regnum_xnack_mask_hi -> first_hwreg + 8
          [] r = regnum_mode -> first_hwreg + 9
          [] OTHER -> r
      sgpr_renamed(r) ==
        CASE r \in {regnum_vcc_64, regnum_vcc_lo} -> aliased_sgpr_end - 2
          [] r = regnum_vcc_hi -> aliased_sgpr_end - 1
          [] r \in {regnum_flat_scratch, regnum_flat_scratch_lo} ->
               aliased_sgpr_end - 6
          [] r = regnum_flat_scratch_hi -> aliased_sgpr_end - 5
          [] OTHER -> r
      sgprs_and_vgprs(r) ==
        IF r >= first_sgpr /\ r < aliased_sgpr_end
        THEN sgprs_addr + (r - first_sgpr) * 4
        ELSE IF r >= first_vgpr_64 /\ r <= last_vgpr_64
                /\ (r - first_vgpr_64) < cwsr_vgpr_count(rec)
        THEN vgprs_addr + (r - first_vgpr_64) * 4 * 64
        ELSE NotPresent
      shadow_sgprs(r) ==
        IF r >= shadow_sgpr_end - scalar_alias_count(a) /\ r < shadow_sgpr_end
        THEN IF r = shadow_sgpr_end - 4 \/ r = shadow_sgpr_end - 3
             THEN hwregs_addr + (11 - (shadow_sgpr_end - r)) * 4
             ELSE sgprs_and_vgprs(first_sgpr + (r - first_shadow_sgpr))
        ELSE sgprs_and_vgprs(r)
      sgprs(r) ==
        IF r >= aliased_sgpr_end - scalar_alias_count(a)
           /\ r < aliased_sgpr_end
        THEN NotPresent
        ELSE shadow_sgprs(sgpr_renamed(r))
      hwregs(r) ==
        IF r >= first_hwreg /\ r <= last_hwreg
        THEN hwregs_addr + (r - first_hwreg) * 4
        ELSE sgprs(r)
  IN IF cwsr_is_first_wave(rec) /\ regnum = regnum_lds_0
     THEN save_area_addr
     ELSE IF regnum >= first_ttmp /\ regnum <= last_ttmp
     THEN ttmps_addr + (regnum - first_ttmp) * 4
     ELSE hwregs(hwreg_renamed(regnum))

(* mi_architecture_t::cwsr_record_t::register_address *)
mi_register_address(rec, regnum) ==
  LET vgprs(sgprs_addr) ==
        LET accvgprs_addr == sgprs_addr - cwsr_acc_vgpr_count(rec) * 4 * 64
            vgprs_addr == accvgprs_addr - cwsr_vgpr_count(rec) * 4 * 64
        IN IF sgprs_addr = NotPresent THEN AssertFailed
           ELSE IF regnum >= first_accvgpr_64 /\ regnum <= last_accvgpr_64
                   /\ (regnum - first_accvgpr_64) < cwsr_acc_vgpr_count(rec)
           THEN accvgprs_addr + (regnum - first_accvgpr_64) * 4 * 64
           ELSE IF regnum >= first_vgpr_64 /\ regnum <= last_vgpr_64
                   /\ (regnum - first_vgpr_64) < cwsr_vgpr_count(rec)
           THEN vgprs_addr + (regnum - first_vgpr_64) * 4 * 64
           ELSE NotPresent
  IN IF regnum < first_vgpr \/ regnum > last_vgpr
     THEN gfx9_register_address(rec, regnum)
     ELSE vgprs(gfx9_register_address(rec, first_sgpr))

(* gfx10_architecture_t::cwsr_record_t::register_address *)
gfx10_register_address(rec, regnum) ==
  LET lane_count == cwsr_lane_count(rec)
      private_vgpr_count == cwsr_vgpr_count(rec)
      shared_vgpr_count == cwsr_shared_vgpr_count(rec)
      vgprs(r, sgprs_addr) ==
        LET shared_vgprs_addr == sgprs_addr - shared_vgpr_count * 4 * 32
            private_vgprs_addr ==
              shared_vgprs_addr - private_vgpr_count * 4 * lane_count
        IN IF sgprs_addr = NotPresent THEN AssertFailed
           ELSE IF r >= first_vgpr_32 + private_vgpr_count
                   /\ r <= last_vgpr_32
                   /\ (r - first_vgpr_32)
                        < private_vgpr_count + shared_vgpr_count
           THEN shared_vgprs_addr
                + (r - (first_vgpr_32 + private_vgpr_count)) * 4 * 32
           ELSE IF lane_count = 32 /\ r >= first_vgpr_32 /\ r <= last_vgpr_32
                   /\ (r - first_vgpr_32) < private_vgpr_count
           THEN private_vgprs_addr + (r - first_vgpr_32) * 4 * lane_count
           ELSE IF lane_count = 64 /\ r >= first_vgpr_64 /\ r <= last_vgpr_64
                   /\ (r - first_vgpr_64) < private_vgpr_count
           THEN private_vgprs_addr + (r - first_vgpr_64) * 4 * lane_count
           ELSE NotPresent
      delegate(r) ==
        IF r < first_vgpr \/ r > last_vgpr
        THEN gfx9_register_address(rec, r)
        ELSE vgprs(r, gfx9_register_address(rec, first_sgpr))
      vcc(r) ==
        IF (r = regnum_vcc_32 /\ lane_count # 32)
           \/ (r = regnum_vcc_64 /\ lane_count # 64)
        THEN NotPresent
        ELSE delegate(IF r = regnum_vcc_32 THEN regnum_vcc_lo ELSE r)
  IN IF ((regnum = regnum_exec_32 \/ regnum = regnum_xnack_mask_32)
         /\ lane_count # 32)
        \/ (regnum = regnum_exec_64 /\ lane_count # 64)
     THEN NotPresent
     ELSE IF regnum \in {regnum_xnack_mask_hi, regnum_xnack_mask_64}
     THEN NotPresent
     ELSE vcc(CASE regnum = regnum_exec_32 -> first_hwreg + 3
                [] regnum = regnum_xnack_mask_32 -> first_hwreg + 7
                [] regnum = regnum_mode -> first_hwreg + 8
                [] regnum = regnum_flat_scratch -> first_hwreg + 9
                [] OTHER -> regnum)

(* gfx11_architecture_t::cwsr_record_t::register_address *)
gfx11_register_address(rec, regnum) ==
  IF ((regnum >= first_vgpr_64 /\ regnum < last_vgpr_64)
      \/ (regnum >= first_vgpr_32 /\ regnum < last_vgpr_32))
     /\ rec.no_vgprs
  THEN NotPresent
  ELSE gfx10_register_address(rec, regnum)

(* gfx12_architecture_t::cwsr_record_t::register_address *)
gfx12_register_address(rec, regnum) ==
  IF regnum = regnum_trapsts
  THEN AssertFailed
  ELSE gfx11_register_address(
         rec, CASE regnum = regnum_state_priv -> first_hwreg + 5
                [] regnum = regnum_excp_flag_priv -> first_hwreg + 6
                [] regnum = regnum_excp_flag_user -> first_hwreg + 11
                [] regnum = regnum_trap_ctrl -> first_hwreg + 12
                [] regnum = regnum_status -> first_hwreg + 13
                [] OTHER -> regnum)

(* cwsr_record_t::register_address (virtual dispatch) *)
register_address(rec, regnum) ==
  CASE rec.arch = "gfx9" -> gfx9_register_address(rec, regnum)
    [] rec.arch \in {"gfx908", "gfx940"} -> mi_register_address(rec, regnum)
    [] rec.arch = "gfx10_1" -> gfx10_register_address(rec, regnum)
    [] rec.arch = "gfx11" -> gfx11_register_address(rec, regnum)
    [] rec.arch = "gfx12" -> gfx12_register_address(rec, regnum)

(* gfx9_architecture_t::cwsr_record_t::begin *)
cwsr_begin(rec) ==
  register_address(rec, IF cwsr_lane_count(rec) = 32
                        THEN first_vgpr_32 ELSE first_vgpr_64)

(***************************************************************************)
(* control_stack_iterate: the walk over the control stack.                 *)
(*                                                                         *)
(* Its input is                                                            *)
(*   [arch, control_stack: the words of the buffer, control_stack_words,   *)
(*    beyond: the word a read past the end of the buffer yields,           *)
(*    wave_area_address, wave_area_size,                                   *)
(*    no_vgprs: the indices of the wave descriptors whose saved status     *)
(*              register has the NO_VGPRS bit set]                         *)
(* and its result is the outcome ("return", "fatal_error", the exception   *)
(* "bad_optional_access" or "assert"), the records passed to the callback  *)
(* in the order of the calls, the wave count, the cursor and the indices   *)
(* of the words of the control stack that were read.                       *)
(***************************************************************************)
MaxStackWords == 3

wave_area_address == Pow2(20)

(* control_stack[i], i counted from zero *)
control_stack_at(in, i) ==
  IF i < Len(in.control_stack) THEN in.control_stack[i + 1] ELSE in.beyond

(* make_gfx9_cwsr_record, make_gfx1x_cwsr_record *)
make_cwsr_record(in, i, relaunch, st) ==
  [arch |-> in.arch,
   relaunch_wave |-> relaunch.payload,
   relaunch_state |-> st.state0,
   relaunch2_state |-> st.state1,
   context_save_address |->
     IF IsGfx9Cwsr(in.arch) THEN st.last_wave_area - 64
     ELSE st.last_wave_area,
   no_vgprs |-> i \in in.no_vgprs]

IterateStart(in) ==
  [state0 |-> 0, state1 |-> 0, last_wave_area |-> in.wave_area_address,
   calls |-> <<>>, wave_count |-> 0, reads |-> {}, outcome |-> "running"]

(* One pass of the loop body with the state bit tested before the event   *)
(* bit.                                                                    *)
control_stack_word_state_first(in, i, st) ==
  LET wave_descriptor(rec, addr) ==
        CASE addr = NotPresent ->
               [i |-> i, st |-> [st EXCEPT !.outcome = "bad_optional_access"]]
          [] addr = AssertFailed ->
               [i |-> i, st |-> [st EXCEPT !.outcome = "assert"]]
          [] OTHER ->
               [i |-> i + 1,
                st |-> [st EXCEPT !.last_wave_area = addr,
                                  !.calls = Append(@, rec),
                                  !.wave_count = @ + 1]]
      first_vgpr_address(rec) ==
        wave_descriptor(rec, IF IsGfx9Cwsr(in.arch)
                             THEN register_address(rec, first_vgpr_64)
                             ELSE cwsr_begin(rec))
      word(relaunch) ==
        IF compute_relaunch_is_state(relaunch)
        THEN IF IsGfx9Cwsr(in.arch)
             THEN [i |-> i + 1, st |-> [st EXCEPT !.state0 = relaunch.payload]]
             ELSE [i |-> i + 2,
                   st |-> [st EXCEPT !.state0 = relaunch.payload,
                                     !.state1 =
                                       control_stack_at(in, i + 1).payload,
                                     !.reads = @ \cup {i + 1}]]
        ELSE IF compute_relaunch_is_event(relaunch)
        THEN [i |-> i + 1, st |-> st]
        ELSE first_vgpr_address(make_cwsr_record(in, i, relaunch, st))
  IN word(control_stack_at(in, i))

(* One pass of the body of the for loop of                                 *)
(* gfx9_architecture_t::control_stack_iterate and of                       *)
(* gfx10_architecture_t::control_stack_iterate: the index of the next word *)
(* and the state of the walk.                                              *)
control_stack_word(in, i, st) ==
  LET wave_descriptor(rec, addr) ==
        CASE addr = NotPresent ->
               [i |-> i, st |-> [st EXCEPT !.outcome = "bad_optional_access"]]
          [] addr = AssertFailed ->
               [i |-> i, st |-> [st EXCEPT !.outcome = "assert"]]
          [] OTHER ->
               [i |-> i + 1,
                st |-> [st EXCEPT !.last_wave_area = addr,
                                  !.calls = Append(@, rec),
                                  !.wave_count = @ + 1]]
      first_vgpr_address(rec) ==
        wave_descriptor(rec, IF IsGfx9Cwsr(in.arch)
                             THEN register_address(rec, first_vgpr_64)
                             ELSE cwsr_begin(rec))
      word(relaunch) ==
        IF compute_relaunch_is_event(relaunch)
        THEN [i |-> i + 1, st |-> st]
        ELSE IF compute_relaunch_is_state(relaunch)
        THEN IF IsGfx9Cwsr(in.arch)
             THEN [i |-> i + 1, st |-> [st EXCEPT !.state0 = relaunch.payload]]
             ELSE [i |-> i + 2,
                   st |-> [st EXCEPT !.state0 = relaunch.payload,
                                     !.state1 =
                                       control_stack_at(in, i + 1).payload,
                                     !.reads = @ \cup {i + 1}]]
        ELSE first_vgpr_address(make_cwsr_record(in, i, relaunch, st))
  IN word(control_stack_at(in, i))

RECURSIVE control_stack_loop(_, _, _)
(* The for loop of control_stack_iterate *)
control_stack_loop(in, i, st) ==
  LET next(pass) == control_stack_loop(in, pass.i, pass.st)
      read == [st EXCEPT !.reads = @ \cup {i}]
  IN IF i < in.control_stack_words /\ st.outcome = "running"
     THEN next(control_stack_word(in, i, read))
     ELSE st

(* gfx9_architecture_t::control_stack_iterate,                             *)
(* gfx10_architecture_t::control_stack_iterate                             *)
control_stack_iterate(in) ==
  LET finish(st) ==
        IF st.outcome # "running" THEN st
        ELSE IF st.last_wave_area # in.wave_area_address - in.wave_area_size
        THEN [st EXCEPT !.outcome = "fatal_error"]
        ELSE [st EXCEPT !.outcome = "return"]
  IN finish(control_stack_loop(in, 2, IterateStart(in)))

(* The relaunch words the stacks are made of: an event, a word with both   *)
(* the event and the state bit, two state descriptors (the second with     *)
(* more vector registers, LDS and, from GFX10 on, 32 lanes and shared      *)
(* vector registers), a wave descriptor and the descriptor of the first    *)
(* wave of a group.                                                        *)
RelaunchWords(a) ==
  IF IsGfx9Cwsr(a)
  THEN {[tag |-> 1, payload |-> 0],
        [tag |-> 3, payload |-> 1],
        [tag |-> 2, payload |-> Pow2(6)],
        [tag |-> 2, payload |-> 1 + Pow2(6) + Pow2(9) + Pow2(24)],
        [tag |-> 0, payload |-> 0],
        [tag |-> 0, payload |-> Pow2(17)]}
  ELSE {[tag |-> 1, payload |-> 0],
        [tag |-> 3, payload |-> 1],
        [tag |-> 2, payload |-> 0],
        [tag |-> 2, payload |-> 1 + Pow2(10) + Pow2(24) + Pow2(26)],
        [tag |-> 0, payload |-> 0],
        [tag |-> 0, payload |-> Pow2(12)]}

(* The two PM4 packets at the top of the stack *)
Pm4Packet == [tag |-> 3, payload |-> 0]

ControlStacks(a) ==
  UNION {{<<Pm4Packet, Pm4Packet>> \o body :
            body \in [1..n -> RelaunchWords(a)]} : n \in 0..MaxStackWords}

(* What a read past the end of the buffer can yield *)
BeyondWords(a) ==
  IF IsGfx9Cwsr(a) THEN {Pm4Packet}
  ELSE {Pm4Packet, [tag |-> 0, payload |-> 1]}

(* The indices of the wave descriptors of a stack *)
WaveDescriptors(cs) ==
  {i \in 2..(Len(cs) - 1) :
     ~compute_relaunch_is_event(cs[i + 1])
     /\ ~compute_relaunch_is_state(cs[i + 1])}

(* The NO_VGPRS bit exists from GFX11 on; at most one wave of the stack    *)
(* has it set.                                                             *)
NoVgprs(a, cs) ==
  IF a \in {"gfx11", "gfx12"}
  THEN {{}} \cup {{i} : i \in WaveDescriptors(cs)}
  ELSE {{}}

(* The bytes the waves of the whole stack take in the save area *)
SavedBytes(a, cs, beyond) ==
  LET whole == [arch |-> a, control_stack |-> cs,
                control_stack_words |-> Len(cs), beyond |-> beyond,
                wave_area_address |-> wave_area_address,
                wave_area_size |-> 0, no_vgprs |-> {}]
  IN wave_area_address
     - control_stack_loop(whole, 2, IterateStart(whole)).last_wave_area

Pending == [outcome |-> "pending"]

(* The inputs of control_stack_iterate: the stack with the right and with  *)
(* a too small word count, the size of the save area right and too big.    *)
IterateInputs ==
  \E a \in CwsrArchs :
    \E cs \in ControlStacks(a) :
      \E words \in {Len(cs), Len(cs) - 1} \cap (2..Len(cs)),
         beyond \in BeyondWords(a), delta \in {0, 64}, nv \in NoVgprs(a, cs) :
        call = [fn |-> "control_stack_iterate",
                in |-> [arch |-> a, control_stack |-> cs,
                        control_stack_words |-> words, beyond |-> beyond,
                        wave_area_address |-> wave_area_address,
                        wave_area_size |-> SavedBytes(a, cs, beyond) + delta,
                        no_vgprs |-> nv],
                out |-> Pending]

(* A call of control_stack_iterate from the queue's context-save walk *)
ControlStackIterate ==
  /\ call.fn = "control_stack_iterate"
  /\ call.out = Pending
  /\ call' = [call EXCEPT !.out = control_stack_iterate(call.in)]
  /\ UNCHANGED <<wave, q_suspended, api_status, hw_excps, resumes, reported,
                 observed>>

IterateDone == call.fn = "control_stack_iterate" /\ call.out # Pending

(* C11: control_stack_iterate returns normally when the cursor after the   *)
(* last wave descriptor equals wave_area_address - wave_area_size, and     *)
(* takes the fatal corruption path for every other stack.                  *)
C11_ReturnOrFatal ==
  IterateDone =>
    IF call.out.last_wave_area
         = call.in.wave_area_address - call.in.wave_area_size
    THEN call.out.outcome = "return"
    ELSE call.out.outcome = "fatal_error"

(* The descriptors of a control stack, as the hardware lays them out: the  *)
(* indices, counted from zero, at which a descriptor starts.  A state      *)
(* descriptor takes one word on GFX9 and two words from GFX10 on.          *)
DescriptorWidth(in, i) ==
  IF ~IsGfx9Cwsr(in.arch)
     /\ ~compute_relaunch_is_event(control_stack_at(in, i))
     /\ compute_relaunch_is_state(control_stack_at(in, i))
  THEN 2 ELSE 1

RECURSIVE DescriptorStarts(_, _)
DescriptorStarts(in, i) ==
  IF i < in.control_stack_words
  THEN {i} \cup DescriptorStarts(in, i + DescriptorWidth(in, i))
  ELSE {}

WaveStarts(in) ==
  {i \in DescriptorStarts(in, 2) : control_stack_at(in, i).tag = 0}

StateStarts(in) ==
  {i \in DescriptorStarts(in, 2) : control_stack_at(in, i).tag = 2}

(* The state descriptor most recently seen before index i: its two words,  *)
(* zero when there is none or when the generation has one word only.       *)
StateBefore(in, i) ==
  LET before == {j \in StateStarts(in) : j < i}
      at(j) == <<control_stack_at(in, j).payload,
                 IF IsGfx9Cwsr(in.arch) THEN 0
                 ELSE control_stack_at(in, j + 1).payload>>
  IN IF before = {} THEN <<0, 0>>
     ELSE at(CHOOSE j \in before : \A k \in before : k <= j)

(* C12: the walk starts at the third word; the callback is invoked once    *)
(* per wave descriptor, in stack order, with the wave word and the most    *)
(* recently seen state descriptor (events skipped, a state descriptor one  *)
(* word on GFX9 and two words from GFX10 on), and the returned count is    *)
(* the number of callback invocations.                                     *)
C12_OneCallPerWave ==
  IterateDone /\ call.out.outcome \in {"return", "fatal_error"} =>
    /\ call.out.wave_count = Len(call.out.calls)
    /\ Len(call.out.calls) = Cardinality(WaveStarts(call.in))
    /\ \A i \in WaveStarts(call.in) :
         LET k == Cardinality({j \in WaveStarts(call.in) : j <= i})
         IN /\ call.out.calls[k].relaunch_wave
                 = control_stack_at(call.in, i).payload
            /\ <<call.out.calls[k].relaunch_state,
                 call.out.calls[k].relaunch2_state>>
                 = StateBefore(call.in, i)

(* A walk that returns after an event, a state descriptor and two waves    *)
(* of that state.                                                          *)
C12_Witness ==
  /\ IterateDone
  /\ call.out.outcome = "return"
  /\ call.out.wave_count = 2
  /\ call.out.calls[1].relaunch_state # 0
  /\ call.out.calls[2].relaunch_state = call.out.calls[1].relaunch_state

(***************************************************************************)
(* register_address on the records of the waves of a context save area.    *)
(***************************************************************************)

(* The indices of the vector and accumulation registers asked for: the     *)
(* first and last registers of the smallest allocations, and the last two  *)
(* of the register file.                                                   *)
VgprIndices == {0, 3, 4, 7, 8, 254, 255}

(* The state descriptors of the records: the smallest and the largest      *)
(* vector register allocation, with and without LDS, 16 or 112 scalar      *)
(* registers (GFX9), the accumulation offset (gfx90a), 32 or 64 lanes and  *)
(* shared vector registers (GFX10 and later).                              *)
StatePayloads(a) ==
  CASE a \in {"gfx9", "gfx908"} ->
         {vgprs + sgprs * Pow2(6) + lds * Pow2(9) :
            vgprs \in {0, 63}, sgprs \in {1, 7}, lds \in {0, 1}}
    [] a = "gfx940" ->
         {vgprs + sgprs * Pow2(6) + accum_offset * Pow2(24) :
            vgprs \in {31, 63}, sgprs \in {1, 7}, accum_offset \in {0, 63}}
    [] OTHER ->
         {vgprs + w32_en * Pow2(24) + shared_vgprs * Pow2(26) :
            vgprs \in {0, 63}, w32_en \in {0, 1}, shared_vgprs \in {0, 1}}

(* The wave descriptors of the records: a wave, and the first of a group *)
WavePayloads(a) == {0, IF IsGfx9Cwsr(a) THEN Pow2(17) ELSE Pow2(12)}

CwsrRecords ==
  UNION {{[arch |-> a, relaunch_wave |-> w, relaunch_state |-> s,
           relaunch2_state |-> 0,
           context_save_address |-> wave_area_address,
           no_vgprs |-> nv] :
            w \in WavePayloads(a), s \in StatePayloads(a),
            nv \in IF a \in {"gfx11", "gfx12"} THEN BOOLEAN ELSE {FALSE}}
         : a \in CwsrArchs}

Vgprs32 == {first_vgpr_32 + i : i \in VgprIndices}
Vgprs64 == {first_vgpr_64 + i : i \in VgprIndices}
AccVgprs32 == {first_accvgpr_32 + i : i \in VgprIndices}
AccVgprs64 == {first_accvgpr_64 + i : i \in VgprIndices}

(* The registers asked for *)
Regnums ==
  Vgprs32 \cup Vgprs64 \cup AccVgprs32 \cup AccVgprs64
  \cup {regnum_exec_32, regnum_exec_64, regnum_vcc_32, regnum_vcc_64,
        regnum_pc, regnum_status, regnum_mode, regnum_m0,
        regnum_xnack_mask_32, regnum_xnack_mask_64, regnum_flat_scratch,
        regnum_lds_0, first_sgpr, first_sgpr + 101, first_sgpr + 107,
        first_ttmp + 6}

RegisterAddressInputs ==
  \E rec \in CwsrRecords, regnum \in Regnums :
    call = [fn |-> "register_address",
            in |-> [rec |-> rec, regnum |-> regnum], out |-> Pending]

(* A call of register_address on a record *)
RegisterAddress ==
  /\ call.fn = "register_address"
  /\ call.out = Pending
  /\ call' = [call EXCEPT !.out =
                [outcome |-> "return",
                 address |-> register_address(call.in.rec, call.in.regnum)]]
  /\ UNCHANGED <<wave, q_suspended, api_status, hw_excps, resumes, reported,
                 observed>>

RegisterAddressDone == call.fn = "register_address" /\ call.out # Pending

(* What the wave of a record has been allocated: the vector registers of   *)
(* its width below its vector register count (none when its status says    *)
(* NO_VGPRS), the 32-wide shared vector registers that follow them, the    *)
(* accumulation registers of the generations that have them, and the EXEC  *)
(* and VCC aliases of its width.                                           *)
Allocated(rec, regnum) ==
  LET lanes == cwsr_lane_count(rec)
      shared == IF IsGfx9Cwsr(rec.arch) THEN 0 ELSE cwsr_shared_vgpr_count(rec)
  IN CASE regnum \in Vgprs64 ->
            /\ lanes = 64
            /\ ~rec.no_vgprs
            /\ regnum - first_vgpr_64 < cwsr_vgpr_count(rec)
       [] regnum \in Vgprs32 ->
            /\ ~rec.no_vgprs
            /\ \/ lanes = 32 /\ regnum - first_vgpr_32 < cwsr_vgpr_count(rec)
               \/ /\ regnum - first_vgpr_32 >= cwsr_vgpr_count(rec)
                  /\ regnum - first_vgpr_32 < cwsr_vgpr_count(rec) + shared
       [] regnum \in AccVgprs64 ->
            /\ rec.arch \in {"gfx908", "gfx940"}
            /\ regnum - first_accvgpr_64 < cwsr_acc_vgpr_count(rec)
       [] regnum \in AccVgprs32 -> FALSE
       [] regnum \in {regnum_exec_32, regnum_vcc_32} -> lanes = 32
       [] regnum \in {regnum_exec_64, regnum_vcc_64} -> lanes = 64

ClaimedRegnums ==
  Vgprs32 \cup Vgprs64 \cup AccVgprs32 \cup AccVgprs64
  \cup {regnum_exec_32, regnum_exec_64, regnum_vcc_32, regnum_vcc_64}

(* C13: register_address returns an address only for a register that is    *)
(* allocated to the wave (vector registers below the vector register       *)
(* count, accumulation registers on the generations that have them, the    *)
(* 32-bit EXEC and VCC aliases in 32-wide waves, the 64-bit ones in        *)
(* 64-wide waves) and not-present for every other register.                *)
C13_AddressOnlyIfAllocated ==
  RegisterAddressDone /\ call.in.regnum \in ClaimedRegnums
  /\ ~Allocated(call.in.rec, call.in.regnum)
    => call.out.address = NotPresent

(***************************************************************************)
(* Instructions as byte buffers, and the encoding predicates.              *)
(*                                                                         *)
(* An instruction is [bytes, beyond, size]: the bytes of the buffer, the   *)
(* four bytes a read of the first word finds where the buffer has none,    *)
(* and the size the decoder found (0: not a legal instruction).            *)
(* A 32-bit word is the pair of its halves [hi, lo].                       *)
(***************************************************************************)
IsGfx9Isa(a) == a \in {"gfx9", "gfx908", "gfx940"}

IsGfx10Isa(a) == a \in {"gfx10_1", "gfx10_3"}

(* instruction_t::capacity *)
capacity(instruction) == Len(instruction.bytes)

(* instruction_t::is_valid *)
instruction_is_valid(instruction) == instruction.size # 0

(* sizeof (instruction.word<0> ()) *)
word_size == 4

(* instruction_t::word<0>: the first four bytes, least significant first *)
word0(instruction) ==
  LET byte(k) == IF k <= Len(instruction.bytes)
                 THEN instruction.bytes[k] ELSE instruction.beyond[k]
  IN [lo |-> byte(1) + 256 * byte(2), hi |-> byte(3) + 256 * byte(4)]

(* amdgcn_architecture_t::ssrc0_operand: bits 0..7 *)
ssrc0_operand(instruction) == word0(instruction).lo % 256

(* amdgcn_architecture_t::ssrc1_operand: bits 8..15 *)
ssrc1_operand(instruction) == word0(instruction).lo \div 256

(* amdgcn_architecture_t::sdst_operand: bits 16..22 *)
sdst_operand(instruction) == word0(instruction).hi % 128

simm16_operand_unsigned(instruction) == word0(instruction).lo

(* amdgcn_architecture_t::simm16_operand: bits 0..15 as an int16_t *)
simm16_operand(instruction) ==
  IF word0(instruction).lo >= 32768
  THEN word0(instruction).lo - 65536
  ELSE word0(instruction).lo

(* amdgcn_architecture_t::encoding_op7: bits 16..22 *)
encoding_op7(instruction) == word0(instruction).hi % 128

(* amdgcn_architecture_t::is_sopk_encoding: 1011 OP5 SDST7 SIMM16 *)
is_sopk_encoding(op5, instruction) ==
  /\ capacity(instruction) >= word_size
  /\ \E op \in op5 : word0(instruction).hi \div 128 = 352 + (op % 32)

(* amdgcn_architecture_t::is_sop1_encoding: 10111110 1 SDST7 OP8 SSRC08 *)
is_sop1_encoding(op8, instruction) ==
  /\ capacity(instruction) >= word_size
  /\ \E op \in op8 : /\ word0(instruction).hi \div 128 = 381
                     /\ word0(instruction).lo \div 256 = op % 256

(* amdgcn_architecture_t::is_sop2_encoding: 10 OP7 SDST7 SSRC18 SSRC08 *)
is_sop2_encoding(op7, instruction) ==
  /\ capacity(instruction) >= word_size
  /\ \E op \in op7 : word0(instruction).hi \div 128 = 256 + (op % 128)

(* The word is compared whatever the buffer holds.  *)
is_sopp_encoding_unchecked(op7, instruction) ==
  \E op \in op7 : word0(instruction).hi = 49024 + (op % 128)

(* amdgcn_architecture_t::is_sopp_encoding: 101111111 OP7 SIMM16 *)
is_sopp_encoding(op7, instruction) ==
  /\ capacity(instruction) >= word_size
  /\ \E op \in op7 : word0(instruction).hi = 49024 + (op % 128)

(* The keys of cbranch_opcodes_map of gfx9, gfx11 and gfx12 *)
cbranch_opcodes(a) ==
  CASE a = "gfx12" -> 33 .. 38
    [] a = "gfx11" -> 33 .. 42
    [] OTHER -> {4, 5, 6, 7, 8, 9, 23, 24, 25, 26}

(* s_endpgm has the opcode of gfx9 on every generation.  *)
enc_is_endpgm_opcode_1(a, instruction) == is_sopp_encoding({1}, instruction)

(* is_endpgm of gfx9 and gfx11 *)
enc_is_endpgm(a, instruction) ==
  is_sopp_encoding(IF a \in {"gfx11", "gfx12"} THEN {48} ELSE {1},
                   instruction)

(* is_trap of gfx9 and gfx11 *)
enc_is_trap(a, instruction) ==
  is_sopp_encoding(IF a \in {"gfx11", "gfx12"} THEN {16} ELSE {18},
                   instruction)

(* is_sethalt of gfx9 and gfx11 *)
enc_is_sethalt(a, instruction) ==
  is_sopp_encoding(IF a \in {"gfx11", "gfx12"} THEN {2} ELSE {13},
                   instruction)

(* is_barrier of gfx9, gfx11 and gfx12 *)
enc_is_barrier(a, instruction) ==
  is_sopp_encoding(CASE a = "gfx12" -> {20} [] a = "gfx11" -> {61}
                     [] OTHER -> {10},
                   instruction)

(* is_sleep of gfx9 and gfx11 *)
enc_is_sleep(a, instruction) ==
  is_sopp_encoding(IF a \in {"gfx11", "gfx12"} THEN {3} ELSE {14},
                   instruction)

(* gfx10_architecture_t::is_code_end *)
enc_is_code_end(a, instruction) ==
  ~IsGfx9Isa(a) /\ is_sopp_encoding({31}, instruction)

(* is_branch of gfx9 and gfx11 *)
enc_is_branch(a, instruction) ==
  is_sopp_encoding(IF a \in {"gfx11", "gfx12"} THEN {32} ELSE {2},
                   instruction)

(* is_cbranch of gfx9, gfx11 and gfx12 *)
enc_is_cbranch(a, instruction) ==
  /\ capacity(instruction) >= word_size
  /\ word0(instruction).hi \div 128 = 383
  /\ encoding_op7(instruction) \in cbranch_opcodes(a)

(* is_call of gfx9, gfx10 and gfx11 *)
enc_is_call(a, instruction) ==
  CASE IsGfx9Isa(a) ->
         /\ instruction_is_valid(instruction)
         /\ is_sopk_encoding({21}, instruction)
         /\ sdst_operand(instruction) % 2 = 0
    [] IsGfx10Isa(a) ->
         /\ instruction_is_valid(instruction)
         /\ is_sopk_encoding({22}, instruction)
         /\ sdst_operand(instruction) % 2 = 0
    [] OTHER -> is_sopk_encoding({20}, instruction)

(* is_getpc of gfx9, gfx10 and gfx11 *)
enc_is_getpc(a, instruction) ==
  CASE IsGfx9Isa(a) ->
         /\ instruction_is_valid(instruction)
         /\ is_sop1_encoding({28}, instruction)
         /\ sdst_operand(instruction) % 2 = 0
    [] IsGfx10Isa(a) ->
         /\ instruction_is_valid(instruction)
         /\ is_sop1_encoding({31}, instruction)
         /\ sdst_operand(instruction) % 2 = 0
    [] OTHER -> is_sop1_encoding({71}, instruction)

(* is_setpc of gfx9, gfx10 and gfx11 *)
enc_is_setpc(a, instruction) ==
  CASE IsGfx9Isa(a) ->
         /\ instruction_is_valid(instruction)
         /\ is_sop1_encoding({29}, instruction)
         /\ ssrc0_operand(instruction) % 2 = 0
    [] IsGfx10Isa(a) ->
         /\ instruction_is_valid(instruction)
         /\ is_sop1_encoding({32}, instruction)
    [] OTHER -> is_sop1_encoding({72}, instruction)

(* is_swappc of gfx9, gfx10 and gfx11 *)
enc_is_swappc(a, instruction) ==
  CASE IsGfx9Isa(a) ->
         /\ instruction_is_valid(instruction)
         /\ is_sop1_encoding({30}, instruction)
         /\ ssrc0_operand(instruction) % 2 = 0
         /\ sdst_operand(instruction) % 2 = 0
    [] IsGfx10Isa(a) ->
         /\ instruction_is_valid(instruction)
         /\ is_sop1_encoding({33}, instruction)
         /\ ssrc0_operand(instruction) % 2 = 0
    [] OTHER -> is_sop1_encoding({73}, instruction)

(* is_cbranch_i_fork of gfx9 and gfx10 *)
enc_is_cbranch_i_fork(a, instruction) ==
  /\ IsGfx9Isa(a)
  /\ instruction_is_valid(instruction)
  /\ is_sopk_encoding({16}, instruction)
  /\ sdst_operand(instruction) % 2 = 0

(* is_cbranch_g_fork of gfx9 and gfx10 *)
enc_is_cbranch_g_fork(a, instruction) ==
  /\ IsGfx9Isa(a)
  /\ instruction_is_valid(instruction)
  /\ is_sop2_encoding({41}, instruction)
  /\ ssrc0_operand(instruction) % 2 = 0
  /\ ssrc1_operand(instruction) % 2 = 0

(* is_cbranch_join of gfx9 and gfx10 *)
enc_is_cbranch_join(a, instruction) ==
  /\ IsGfx9Isa(a)
  /\ instruction_is_valid(instruction)
  /\ is_sop1_encoding({46}, instruction)

(* is_subvector_loop_begin of gfx10, gfx11 and gfx12 *)
enc_is_subvector_loop_begin(a, instruction) ==
  CASE IsGfx10Isa(a) ->
         instruction_is_valid(instruction)
         /\ is_sopk_encoding({27}, instruction)
    [] a = "gfx11" ->
         instruction_is_valid(instruction)
         /\ is_sopk_encoding({22}, instruction)
    [] OTHER -> FALSE

(* is_subvector_loop_end of gfx10, gfx11 and gfx12 *)
enc_is_subvector_loop_end(a, instruction) ==
  CASE IsGfx10Isa(a) ->
         instruction_is_valid(instruction)
         /\ is_sopk_encoding({28}, instruction)
    [] a = "gfx11" ->
         instruction_is_valid(instruction)
         /\ is_sopk_encoding({23}, instruction)
    [] OTHER -> FALSE

(* is_sequential of gfx9, gfx10, gfx11 and gfx12 *)
enc_is_sequential(a, instruction) ==
  /\ instruction_is_valid(instruction)
  /\ CASE IsGfx9Isa(a) ->
            /\ ~is_sopp_encoding({1, 2, 4, 5, 6, 7, 8, 9, 23, 24, 25, 26},
                                 instruction)
            /\ ~is_sop1_encoding({29, 30, 46}, instruction)
            /\ ~is_sop2_encoding({41}, instruction)
            /\ ~is_sopk_encoding({16, 21}, instruction)
       [] IsGfx10Isa(a) ->
            /\ ~is_sopp_encoding({1, 2, 4, 5, 6, 7, 8, 9, 23, 24, 25, 26},
                                 instruction)
            /\ ~is_sop1_encoding({32, 33}, instruction)
            /\ ~is_sopk_encoding({22, 27, 28}, instruction)
       [] a = "gfx11" ->
            /\ ~is_sopp_encoding({48} \cup (32 .. 42), instruction)
            /\ ~is_sop1_encoding({72, 73}, instruction)
            /\ ~is_sopk_encoding({20, 22, 23}, instruction)
       [] OTHER ->
            /\ ~is_sopp_encoding({48} \cup (32 .. 38), instruction)
            /\ ~is_sop1_encoding({72, 73}, instruction)
            /\ ~is_sopk_encoding({20}, instruction)

(* The four bytes of the word with halves hi and lo *)
WordBytes(hi, lo) == <<lo % 256, lo \div 256, hi % 256, hi \div 256>>

(* Instruction words by format *)
Sopp(op7, simm16) == WordBytes(49024 + op7, simm16)
Sopk(op5, sdst, simm16) == WordBytes(45056 + op5 * 128 + sdst, simm16)
Sop1(op8, sdst, ssrc0) == WordBytes(48768 + sdst, op8 * 256 + ssrc0)
Sop2(op7, sdst, ssrc1, ssrc0) ==
  WordBytes(32768 + op7 * 128 + sdst, ssrc1 * 256 + ssrc0)

(* amdgcn_architecture_t::terminating_instruction and its gfx11 override *)
terminating_instruction(a) ==
  [bytes |-> IF a \in {"gfx11", "gfx12"}
             THEN <<0, 0, 176, 191>> ELSE <<0, 0, 129, 191>>,
   beyond |-> <<0, 0, 0, 0>>, size |-> 4]

(***************************************************************************)
(* Branch targets.                                                         *)
(*                                                                         *)
(* A 64-bit address is the sequence of its four 16-bit limbs, least        *)
(* significant first; a 32-bit register value is the pair [hi, lo] of its  *)
(* halves.  Arithmetic is modulo 2^64 as on the uint64_t of the code.      *)
(***************************************************************************)
Limb == 65536

carry1(x, y) == (x[1] + y[1]) \div Limb

carry2(x, y) == (x[2] + y[2] + carry1(x, y)) \div Limb

carry3(x, y) == (x[3] + y[3] + carry2(x, y)) \div Limb

(* x + y on uint64_t *)
add64(x, y) ==
  <<(x[1] + y[1]) % Limb,
    (x[2] + y[2] + carry1(x, y)) % Limb,
    (x[3] + y[3] + carry2(x, y)) % Limb,
    (x[4] + y[4] + carry3(x, y)) % Limb>>

(* The conversion of a small signed or unsigned value to 64 bits *)
to64(v) ==
  <<v % Limb, (v \div Limb) % Limb,
    IF v < 0 THEN Limb - 1 ELSE 0, IF v < 0 THEN Limb - 1 ELSE 0>>

(* (static_cast<uint64_t> (hi) << 32) | lo *)
pair64(lo, hi) == <<lo.lo, lo.hi, hi.lo, hi.hi>>

align_down_not(x, alignment) == x

(* utils::align_down for an alignment that is a power of two up to 2^16 *)
align_down(x, alignment) == <<x[1] - (x[1] % alignment), x[2], x[3], x[4]>>

(* utils::is_aligned *)
is_aligned(x, alignment) == x[1] % alignment = 0

(* register_read_only_mask (pc): bit_mask (0, 1) *)
pc_read_only_bits == 3

(* amdgcn_architecture_t::minimum_instruction_alignment *)
minimum_instruction_alignment == pc_read_only_bits + 1

regnum_null == regnum_trap_ctrl + 1

regnum_csp == regnum_trap_ctrl + 2

(* scalar_operand_to_regnum of gfx9, gfx10 and gfx11, with priv false *)
scalar_operand_to_regnum(a, operand) ==
  CASE IsGfx9Isa(a) /\ operand \in 0 .. 101 -> first_sgpr + operand
    [] ~IsGfx9Isa(a) /\ operand \in 0 .. 105 -> first_sgpr + operand
    [] operand \in 108 .. 123 -> regnum_null
    [] IsGfx9Isa(a) /\ operand = 102 -> regnum_flat_scratch_lo
    [] IsGfx9Isa(a) /\ operand = 103 -> regnum_flat_scratch_hi
    [] IsGfx9Isa(a) /\ operand = 104 -> regnum_xnack_mask_lo
    [] IsGfx9Isa(a) /\ operand = 105 -> regnum_xnack_mask_hi
    [] operand = 106 -> regnum_vcc_lo
    [] operand = 107 -> regnum_vcc_hi
    [] operand = 124 ->
         IF a \in {"gfx11", "gfx12"} THEN regnum_null ELSE regnum_m0
    [] operand = 125 /\ a \in {"gfx11", "gfx12"} -> regnum_m0
    [] operand = 125 /\ IsGfx10Isa(a) -> regnum_null
    [] operand = 126 -> regnum_exec_lo
    [] operand = 127 -> regnum_exec_hi
    [] OTHER -> NotPresent

(* The scalar registers a branch reads: s0 .. s7 one by one, the control   *)
(* stack pointer, exec, and one value for every other register.            *)
SgprCount == 8

(* wave_t::read_register of a 32-bit register *)
wave_read_register(regs, regnum) ==
  CASE regnum \in first_sgpr .. first_sgpr + SgprCount - 1 ->
         regs.sgprs[regnum - first_sgpr]
    [] regnum = regnum_exec_lo -> regs.exec_lo
    [] regnum = regnum_exec_hi -> regs.exec_hi
    [] regnum = regnum_null -> [hi |-> 0, lo |-> 0]
    [] OTHER -> regs.rest

(* pc + instruction.size () + (static_cast<int64_t> (simm16) << 2) *)
pc_relative(pc, instruction) ==
  add64(add64(pc, to64(instruction.size)),
        to64(simm16_operand(instruction) * 4))

(* amdgcn_architecture_t::branch_target *)
amdgcn_branch_target(a, regs, pc, instruction) ==
  LET aligned(target) ==
        [outcome |-> "return",
         address |-> align_down(target, minimum_instruction_alignment)]
      indirect(regnum) ==
        IF regnum = NotPresent
        THEN [outcome |-> "assert"]
        ELSE aligned(pair64(wave_read_register(regs, regnum),
                            wave_read_register(regs, regnum + 1)))
  IN CASE ~instruction_is_valid(instruction) -> [outcome |-> "assert"]
       [] enc_is_branch(a, instruction) \/ enc_is_call(a, instruction)
          \/ enc_is_cbranch(a, instruction)
          \/ enc_is_cbranch_i_fork(a, instruction) ->
            aligned(pc_relative(pc, instruction))
       [] enc_is_cbranch_g_fork(a, instruction) ->
            indirect(scalar_operand_to_regnum(a, ssrc1_operand(instruction)))
       [] enc_is_setpc(a, instruction) \/ enc_is_swappc(a, instruction) ->
            indirect(scalar_operand_to_regnum(a, ssrc0_operand(instruction)))
       [] enc_is_cbranch_join(a, instruction) ->
            indirect(first_sgpr + (regs.csp - 1) * 4 + 2)
       [] OTHER -> [outcome |-> "assert"]

(* gfx10_architecture_t::branch_target *)
gfx10_branch_target(a, regs, pc, instruction) ==
  CASE ~instruction_is_valid(instruction) -> [outcome |-> "assert"]
    [] enc_is_subvector_loop_begin(a, instruction)
       \/ enc_is_subvector_loop_end(a, instruction) ->
         [outcome |-> "return", address |-> pc_relative(pc, instruction)]
    [] OTHER -> amdgcn_branch_target(a, regs, pc, instruction)

(* The virtual call architecture ().branch_target *)
arch_branch_target(a, regs, pc, instruction) ==
  IF IsGfx9Isa(a)
  THEN amdgcn_branch_target(a, regs, pc, instruction)
  ELSE gfx10_branch_target(a, regs, pc, instruction)

(* An address given as high * 2^30 + low *)
Radix == 1073741824

(* The limbs of the address high * 2^30 + low, for low in 0 .. 2^30 - 1 *)
ToLimbs(high, low) ==
  <<low % Limb, (low \div Limb) + (high % 4) * 16384,
    (high \div 4) % Limb, high \div 262144>>

(* Program counters: inside a 4 GiB window, next to its two ends, and far  *)
(* above it                                                                *)
BranchPcs ==
  {[high |-> 0, low |-> 262144], [high |-> 3, low |-> Radix - 4],
   [high |-> 4, low |-> 32768], [high |-> 4, low |-> 0],
   [high |-> 262147, low |-> Radix - 8]}

(* The program counter every offset is tried at *)
ExhaustivePc == [high |-> 4, low |-> 32768]

SignedOffsets == -32768 .. 32767

SampledOffsets == {-32768, -32767, -8193, -2, -1, 0, 1, 2, 8191, 32766, 32767}

(* The two's complement encoding of a 16-bit offset *)
Simm16(d) == d % Limb

(* The opcodes of the pc-relative branches of each generation *)
DirectBranches(a, simm16) ==
  CASE IsGfx9Isa(a) ->
         {Sopp(2, simm16), Sopp(4, simm16), Sopp(26, simm16),
          Sopk(21, 2, simm16), Sopk(16, 4, simm16)}
    [] IsGfx10Isa(a) ->
         {Sopp(2, simm16), Sopp(9, simm16), Sopk(22, 2, simm16),
          Sopk(27, 0, simm16), Sopk(28, 0, simm16)}
    [] a = "gfx11" ->
         {Sopp(32, simm16), Sopp(33, simm16), Sopp(42, simm16),
          Sopk(20, 2, simm16), Sopk(22, 0, simm16), Sopk(23, 0, simm16)}
    [] OTHER ->
         {Sopp(32, simm16), Sopp(38, simm16), Sopk(20, 2, simm16)}

(* The register-indirect branches of each generation, through s[2:3],      *)
(* s[4:5] and s[6:7]                                                       *)
IndirectBranches(a) ==
  CASE IsGfx9Isa(a) ->
         {Sop1(29, 0, 2), Sop1(29, 0, 6), Sop1(30, 4, 2), Sop1(46, 0, 0),
          Sop2(41, 0, 4, 2), Sop2(41, 0, 6, 0)}
    [] IsGfx10Isa(a) -> {Sop1(32, 0, 2), Sop1(32, 0, 6), Sop1(33, 4, 2)}
    [] OTHER -> {Sop1(72, 0, 2), Sop1(72, 0, 6), Sop1(73, 4, 2)}

BranchArchs == {"gfx9", "gfx940", "gfx10_1", "gfx10_3", "gfx11", "gfx12"}

(* Values of a 32-bit scalar register *)
Words32 ==
  {[hi |-> 0, lo |-> 0], [hi |-> 1, lo |-> 4096], [hi |-> 32767, lo |-> 2],
   [hi |-> 65535, lo |-> 65535], [hi |-> 4660, lo |-> 22137]}

(* Register files: s[k] and s[k + 4] hold one value for k even and another *)
(* for k odd, so that every register pair holds every pair of values       *)
BranchRegisters ==
  {[sgprs |-> [k \in 0 .. SgprCount - 1 |-> IF k % 2 = 0 THEN even ELSE odd],
    csp |-> csp, exec_lo |-> even, exec_hi |-> odd, rest |-> odd] :
     even \in Words32, odd \in {[hi |-> 0, lo |-> 0], [hi |-> 255, lo |-> 1]},
     csp \in {1, 2}}

NoRegisters == CHOOSE regs \in BranchRegisters : TRUE

Decoded(bytes) == [bytes |-> bytes, beyond |-> <<0, 0, 0, 0>>, size |-> 4]

BranchCall(a, regs, pc, d, bytes, form) ==
  [fn |-> "branch_target",
   in |-> [arch |-> a, regs |-> regs, pc |-> pc, d |-> d, form |-> form,
           instruction |-> Decoded(bytes)],
   out |-> Pending]

(* Every generation, program counter and pc-relative branch with the       *)
(* sampled offsets; one branch at one program counter with every offset;   *)
(* the register-indirect branches over the register files                  *)
BranchTargetInputs ==
  \/ \E a \in BranchArchs, pc \in BranchPcs, d \in SampledOffsets :
       \E bytes \in DirectBranches(a, Simm16(d)) :
         call = BranchCall(a, NoRegisters, pc, d, bytes, "direct")
  \/ \E d \in SignedOffsets :
       call = BranchCall("gfx9", NoRegisters, ExhaustivePc, d,
                         Sopp(2, Simm16(d)), "direct")
  \/ \E a \in BranchArchs, regs \in BranchRegisters :
       \E bytes \in IndirectBranches(a) :
         call = BranchCall(a, regs, ExhaustivePc, 0, bytes, "indirect")

(* A call of branch_target *)
BranchTarget ==
  /\ call.fn = "branch_target"
  /\ call.out = Pending
  /\ call' = [call EXCEPT !.out =
                arch_branch_target(call.in.arch, call.in.regs,
                                   ToLimbs(call.in.pc.high, call.in.pc.low),
                                   call.in.instruction)]
  /\ UNCHANGED <<wave, q_suspended, api_status, hw_excps, resumes, reported,
                 observed>>

BranchTargetDone == call.fn = "branch_target" /\ call.out # Pending

(* pc + n + 4 * d, aligned down, computed on the integers *)
DirectTarget(pc, n, d) ==
  LET target(sum) ==
        ToLimbs(pc.high + sum \div Radix,
                (sum % Radix) - ((sum % Radix) % minimum_instruction_alignment))
  IN target(pc.low + n + 4 * d)

(* C14: a direct branch with signed 16-bit word offset d at address pc     *)
(* with instruction size n has the target                                  *)
(* align_down (pc + n + 4 * d, minimum instruction alignment), for every d *)
(* from -32768 to 32767                                                    *)
C14_DirectBranchTarget ==
  (BranchTargetDone /\ call.in.form = "direct")
    => /\ call.out.outcome = "return"
       /\ call.out.address
            = DirectTarget(call.in.pc, call.in.instruction.size, call.in.d)

C14_Witness ==
  /\ BranchTargetDone
  /\ call.in.form = "direct"
  /\ call.in.d = -32768
  /\ call.in.pc = ExhaustivePc
  /\ call.out.outcome = "return"
  /\ call.out.address = <<32772, 65534, 0, 0>>

(* C15: for every branch form and every generation the address returned by *)
(* branch_target is a multiple of the minimum instruction alignment        *)
C15_TargetAligned ==
  (BranchTargetDone /\ call.out.outcome = "return")
    => call.out.address[1] % minimum_instruction_alignment = 0

C15_Witness ==
  /\ BranchTargetDone
  /\ call.in.form = "indirect"
  /\ call.out.outcome = "return"
  /\ call.in.regs.sgprs[2] = [hi |-> 32767, lo |-> 2]
  /\ call.out.address[1] = 0
  /\ call.out.address[2] = 32767

(***************************************************************************)
(* The fork instructions of gfx9: is_branch_taken and the fork branch of   *)
(* simulate_instruction.  A 64-bit lane mask is four 16-bit limbs.         *)
(***************************************************************************)
RECURSIVE bit_and(_, _, _)
(* x & y on n bits *)
bit_and(x, y, n) ==
  IF n = 0
  THEN 0
  ELSE (IF x % 2 = 1 /\ y % 2 = 1 THEN 1 ELSE 0)
       + 2 * bit_and(x \div 2, y \div 2, n - 1)

(* x & y on uint64_t *)
and64(x, y) == [i \in 1 .. 4 |-> bit_and(x[i], y[i], 16)]

(* ~x on uint64_t *)
not64(x) == [i \in 1 .. 4 |-> Limb - 1 - x[i]]

RECURSIVE bit_count16(_)
bit_count16(x) == IF x = 0 THEN 0 ELSE (x % 2) + bit_count16(x \div 2)

(* utils::bit_count of a uint64_t *)
bit_count(x) ==
  bit_count16(x[1]) + bit_count16(x[2]) + bit_count16(x[3])
  + bit_count16(x[4])

(* static_cast<uint32_t> (x) and static_cast<uint32_t> (x >> 32) *)
lo32(x) == [lo |-> x[1], hi |-> x[2]]

hi32(x) == [lo |-> x[3], hi |-> x[4]]

(* The width of the csp field, mode[29:31] *)
CspLimit == 8

(* wave_t::write_register of a scalar register *)
wave_write_register(regs, regnum, value) ==
  IF regnum \in first_sgpr .. first_sgpr + SgprCount - 1
  THEN [regs EXCEPT !.sgprs[regnum - first_sgpr] = value]
  ELSE regs

(* The register pair a fork takes its mask from *)
fork_mask(a, regs, instruction) ==
  LET pair(regnum) == pair64(wave_read_register(regs, regnum),
                             wave_read_register(regs, regnum + 1))
  IN pair(scalar_operand_to_regnum(
            a, IF enc_is_cbranch_i_fork(a, instruction)
               THEN sdst_operand(instruction)
               ELSE ssrc0_operand(instruction)))

fork_exec(regs) == pair64(regs.exec_lo, regs.exec_hi)

fork_mask_pass(a, regs, instruction) ==
  and64(fork_mask(a, regs, instruction), fork_exec(regs))

fork_mask_fail(a, regs, instruction) ==
  and64(not64(fork_mask(a, regs, instruction)), fork_exec(regs))

fork_is_branch_taken_fewer(a, regs, instruction) ==
  LET decide(exec, mask_pass, mask_fail) ==
        CASE mask_pass = exec -> TRUE
          [] mask_fail = exec -> FALSE
          [] OTHER -> bit_count(mask_fail) < bit_count(mask_pass)
  IN decide(fork_exec(regs), fork_mask_pass(a, regs, instruction),
            fork_mask_fail(a, regs, instruction))

(* amdgcn_architecture_t::is_branch_taken of a fork *)
fork_is_branch_taken(a, regs, instruction) ==
  LET decide(exec, mask_pass, mask_fail) ==
        CASE mask_pass = exec -> TRUE
          [] mask_fail = exec -> FALSE
          [] OTHER -> bit_count(mask_fail) >= bit_count(mask_pass)
  IN decide(fork_exec(regs), fork_mask_pass(a, regs, instruction),
            fork_mask_fail(a, regs, instruction))

(* The four writes of the stack entry, the write of csp and of exec_64 *)
fork_push(regs, saved_exec, saved_pc, exec) ==
  LET regnum == first_sgpr + regs.csp * 4
      entry ==
        wave_write_register(
          wave_write_register(
            wave_write_register(
              wave_write_register(regs, regnum + 0, lo32(saved_exec)),
              regnum + 1, hi32(saved_exec)),
            regnum + 2, lo32(saved_pc)),
          regnum + 3, hi32(saved_pc))
  IN [entry EXCEPT !.csp = (regs.csp + 1) % CspLimit,
                   !.exec_lo = lo32(exec), !.exec_hi = hi32(exec)]

(* amdgcn_architecture_t::simulate_instruction of a fork *)
fork_simulate_instruction(a, regs, pc, instruction) ==
  LET next == add64(pc, to64(instruction.size))
      finish(after) ==
        [outcome |-> "return", regs |-> after,
         new_pc |-> IF enc_is_sequential(a, instruction)
                       \/ ~fork_is_branch_taken(a, after, instruction)
                    THEN next
                    ELSE arch_branch_target(a, after, pc, instruction).address]
      push(taken, mask_pass, mask_fail) ==
        fork_push(regs, IF taken THEN mask_fail ELSE mask_pass,
                  IF taken
                  THEN next
                  ELSE arch_branch_target(a, regs, pc, instruction).address,
                  IF taken THEN mask_pass ELSE mask_fail)
      split(exec, mask_pass, mask_fail) ==
        IF mask_pass # exec /\ mask_fail # exec
        THEN finish(push(fork_is_branch_taken(a, regs, instruction),
                         mask_pass, mask_fail))
        ELSE finish(regs)
  IN IF ~is_aligned(pc, minimum_instruction_alignment)
     THEN [outcome |-> "assert"]
     ELSE split(fork_exec(regs), fork_mask_pass(a, regs, instruction),
                fork_mask_fail(a, regs, instruction))

(* Lanes of the masks *)
SampleLanes == {0, 16, 31, 32, 63}

RECURSIVE SumOf(_)
SumOf(S) ==
  IF S = {} THEN 0 ELSE LET x == CHOOSE x \in S : TRUE IN x + SumOf(S \ {x})

(* The mask with the bits of the lanes of S *)
LaneMask(S) ==
  [i \in 1 .. 4 |->
     SumOf({Pow2(l - 16 * (i - 1)) : l \in S \cap (16 * (i - 1) .. 16 * i - 1)})]

(* The register a register file holds where the mask is not *)
Filler == [hi |-> 4660, lo |-> 22136]

(* Scalar registers with the mask of the lanes of S in s[sdst : sdst + 1]  *)
ForkRegisters(sdst, csp, mask, exec) ==
  [sgprs |-> [k \in 0 .. SgprCount - 1 |->
                CASE k = sdst -> lo32(LaneMask(mask))
                  [] k = sdst + 1 -> hi32(LaneMask(mask))
                  [] OTHER -> Filler],
   csp |-> csp, exec_lo |-> lo32(LaneMask(exec)),
   exec_hi |-> hi32(LaneMask(exec)), rest |-> Filler]

ForkOffsets == {-3, 5}

(* s_cbranch_i_fork of a 64-lane gfx9 wave: the mask register pair, the    *)
(* stack pointer, the lanes of mask and exec, the offset                   *)
ForkInputs ==
  \E sdst \in {0, 2, 4, 6}, csp \in {0, 1}, d \in ForkOffsets :
    \E mask \in SUBSET SampleLanes, exec \in SUBSET SampleLanes :
      call = [fn |-> "simulate_instruction",
              in |-> [arch |-> "gfx9", sdst |-> sdst, mask |-> mask,
                      exec |-> exec, d |-> d, pc |-> ExhaustivePc,
                      regs |-> ForkRegisters(sdst, csp, mask, exec),
                      instruction |-> Decoded(Sopk(16, sdst, Simm16(d)))],
              out |-> Pending]

(* A call of simulate_instruction on a fork *)
SimulateFork ==
  /\ call.fn = "simulate_instruction"
  /\ call.out = Pending
  /\ call' = [call EXCEPT !.out =
                fork_simulate_instruction(
                  call.in.arch, call.in.regs,
                  ToLimbs(call.in.pc.high, call.in.pc.low),
                  call.in.instruction)]
  /\ UNCHANGED <<wave, q_suspended, api_status, hw_excps, resumes, reported,
                 observed>>

SimulateForkDone == call.fn = "simulate_instruction" /\ call.out # Pending

(* The lanes that pass and that fail, and the fork splitting them *)
PassLanes == call.in.mask \cap call.in.exec

FailLanes == call.in.exec \ call.in.mask

ForkSplits == PassLanes # {} /\ FailLanes # {}

(* The side of lanes S with program counter pc is pushed, the side of      *)
(* lanes T runs                                                            *)
Deferred(S, pc, T) ==
  LET slot == call.in.regs.csp * 4
  IN /\ call.out.regs.sgprs[slot] = lo32(LaneMask(S))
     /\ call.out.regs.sgprs[slot + 1] = hi32(LaneMask(S))
     /\ call.out.regs.sgprs[slot + 2] = lo32(pc)
     /\ call.out.regs.sgprs[slot + 3] = hi32(pc)
     /\ call.out.regs.csp = call.in.regs.csp + 1
     /\ call.out.regs.exec_lo = lo32(LaneMask(T))
     /\ call.out.regs.exec_hi = hi32(LaneMask(T))

ForkTarget == DirectTarget(call.in.pc, call.in.instruction.size, call.in.d)

ForkNext == DirectTarget(call.in.pc, call.in.instruction.size, 0)

(* The mask registers are not among the four registers of the stack entry *)
MaskOffStack ==
  call.in.sdst \notin call.in.regs.csp * 4 .. call.in.regs.csp * 4 + 3

sq_wave_status_priv_mask == 5
sq_wave_status_execz_mask == 9
sq_wave_status_vccz_mask == 10
ttmp6_saved_status_halt_mask == 29

(* utils::bit_mask (first, last) *)
bit_mask(first, last) == first .. last

(* The bits of the bytes offset .. offset + value_size - 1 of a register.  *)
byte_window(offset, value_size) == (8 * offset) .. (8 * (offset + value_size) - 1)

(* memcpy (reinterpret_cast<std::byte *> (&reg) + offset, value, value_size) *)
memcpy_into(reg, offset, value_size, value) ==
  (reg \ byte_window(offset, value_size))
    \cup {b + 8 * offset : b \in value \cap byte_window(0, value_size)}

(* memcpy (value, reinterpret_cast<const std::byte *> (&reg) + offset,     *)
(*         value_size)                                                     *)
memcpy_from(reg, offset, value_size) ==
  {b - 8 * offset : b \in reg \cap byte_window(offset, value_size)}

(* is_pseudo_register *)
is_pseudo_register(regnum) ==
  regnum \in {"pseudo_status", "pseudo_state_priv", "pseudo_exec_32",
              "pseudo_exec_64", "pseudo_vcc_32", "pseudo_vcc_64", "wave_id",
              "csp", "null"}

(* architecture_t::register_size, in bytes *)
register_size(regnum) ==
  IF regnum \in {"exec_64", "vcc_64", "pseudo_exec_64", "pseudo_vcc_64",
                 "pc", "wave_id"}
  THEN 8 ELSE 4

(* amdgcn_architecture_t::is_pseudo_register_available *)
amdgcn_is_pseudo_register_available(regnum) ==
  regnum \in {"pseudo_status", "pseudo_exec_64", "pseudo_vcc_64", "wave_id",
              "csp", "null"}

(* gfx10_architecture_t::is_pseudo_register_available *)
gfx10_is_pseudo_register_available(w, regnum) ==
  IF regnum \in {"pseudo_exec_32", "pseudo_vcc_32"} THEN w.lane_count = 32
  ELSE IF regnum \in {"pseudo_exec_64", "pseudo_vcc_64"}
       THEN w.lane_count = 64
  ELSE amdgcn_is_pseudo_register_available(regnum)

(* architecture_t::is_pseudo_register_available *)
is_pseudo_register_available(w, regnum) ==
  CASE w.arch = "gfx12" ->
         regnum \in {"pseudo_status", "pseudo_state_priv"}
         \/ gfx10_is_pseudo_register_available(w, regnum)
    [] w.arch \in {"gfx10_1", "gfx10_3", "gfx11"} ->
         gfx10_is_pseudo_register_available(w, regnum)
    [] OTHER -> amdgcn_is_pseudo_register_available(regnum)

(* The result of a register access: the wave after it, and the value read. *)
Returned(w, value) == [outcome |-> "return", wave |-> w, value |-> value]

Thrown(w, status) == [outcome |-> status, wave |-> w, value |-> {}]

Aborted(w) ==
  [outcome |-> "assert", wave |-> dbgapi_assert(w, FALSE), value |-> {}]

(* The zero flag of the status register is not recomputed.  *)
zero_flag_kept(status_reg, status_mask, base_reg) == status_reg

(* status_reg = (status_reg & ~status_mask)                                *)
(*              | (base_reg == 0 ? status_mask : 0)                        *)
zero_flag_updated(status_reg, status_mask, base_reg) ==
  (status_reg \ {status_mask})
    \cup (IF base_reg = {} THEN {status_mask} ELSE {})

(* The exec and vcc pseudo registers: the write goes to the base register  *)
(* and to the zero flag of the status register.                            *)
write_mask_register(w, base_regnum, status_mask, offset, value_size, value) ==
  LET base_reg == memcpy_into(read_register(w, base_regnum), offset,
                              value_size, value)
      status_reg == zero_flag_updated(read_register(w, "status"),
                                      status_mask, base_reg)
  IN write_register(write_register(w, "status", status_reg),
                    base_regnum, base_reg)

(* amdgcn_architecture_t::write_pseudo_register *)
amdgcn_write_pseudo_register(w, regnum, offset, value_size, value) ==
  IF ~(is_pseudo_register(regnum) /\ is_pseudo_register_available(w, regnum))
  THEN Aborted(w)
  ELSE IF ~(value_size # 0 /\ offset + value_size <= register_size(regnum))
  THEN Aborted(w)
  ELSE CASE regnum = "null" -> Returned(w, {})
    [] regnum \in {"pseudo_exec_64", "pseudo_vcc_64"} ->
         IF w.lane_count # 64 THEN Aborted(w)
         ELSE Returned(
                write_mask_register(
                  w,
                  IF regnum = "pseudo_exec_64" THEN "exec_64" ELSE "vcc_64",
                  IF regnum = "pseudo_exec_64"
                  THEN sq_wave_status_execz_mask
                  ELSE sq_wave_status_vccz_mask,
                  offset, value_size, value),
                {})
    [] regnum = "pseudo_status" ->
         LET status_reg == memcpy_into(read_register(w, "status"), offset,
                                       value_size, value)
             ttmp6 == (read_register(w, "ttmp6")
                         \ {ttmp6_saved_status_halt_mask})
                      \cup (IF sq_wave_status_halt_mask \in status_reg
                            THEN {ttmp6_saved_status_halt_mask} ELSE {})
         IN Returned(write_register(write_register(w, "status", status_reg),
                                    "ttmp6", ttmp6),
                     {})
    [] regnum = "wave_id" ->
         LET old == read_register(w, "ttmp4")
                    \cup {b + 32 : b \in read_register(w, "ttmp5")}
             wave_id == memcpy_into(old, offset, value_size, value)
         IN Returned(write_register(
                       write_register(w, "ttmp4", wave_id \cap bit_mask(0, 31)),
                       "ttmp5",
                       {b - 32 : b \in wave_id \cap bit_mask(32, 63)}),
                     {})
    [] regnum = "csp" ->
         LET mode == read_register(w, "mode")
             csp == memcpy_into({b - 29 : b \in mode \cap bit_mask(29, 31)},
                                offset, value_size, value)
         IN Returned(write_register(
                       w, "mode",
                       (mode \ bit_mask(29, 31))
                         \cup ({b + 29 : b \in csp} \cap bit_mask(0, 31))),
                     {})
    [] OTHER -> Aborted(w)

(* gfx10_architecture_t::write_pseudo_register *)
gfx10_write_pseudo_register(w, regnum, offset, value_size, value) ==
  IF ~(is_pseudo_register(regnum) /\ is_pseudo_register_available(w, regnum))
  THEN Aborted(w)
  ELSE IF ~(value_size # 0 /\ offset + value_size <= register_size(regnum))
  THEN Aborted(w)
  ELSE IF regnum \in {"pseudo_exec_32", "pseudo_vcc_32"}
  THEN IF w.lane_count # 32 THEN Aborted(w)
       ELSE Returned(
              write_mask_register(
                w,
                IF regnum = "pseudo_exec_32" THEN "exec_32" ELSE "vcc_32",
                IF regnum = "pseudo_exec_32"
                THEN sq_wave_status_execz_mask
                ELSE sq_wave_status_vccz_mask,
                offset, value_size, value),
              {})
  ELSE amdgcn_write_pseudo_register(w, regnum, offset, value_size, value)

(* gfx12_architecture_t::write_pseudo_register: the value is not copied    *)
(* into state_priv_reg, which is written back as it was read.              *)
gfx12_write_pseudo_register(w, regnum, offset, value_size, value) ==
  IF ~(is_pseudo_register(regnum) /\ is_pseudo_register_available(w, regnum))
  THEN Aborted(w)
  ELSE IF ~(value_size # 0 /\ offset + value_size <= register_size(regnum))
  THEN Aborted(w)
  ELSE CASE regnum = "pseudo_status" ->
         Returned(write_register(
                    w, "status",
                    memcpy_into(read_register(w, "status"), offset,
                                value_size, value)),
                  {})
    [] regnum = "pseudo_state_priv" ->
         LET state_priv_reg == read_register(w, "state_priv")
             ttmp6 == (read_register(w, "ttmp6")
                         \ {ttmp6_saved_status_halt_mask})
                      \cup (IF sq_wave_state_priv_halt_mask \in state_priv_reg
                            THEN {ttmp6_saved_status_halt_mask} ELSE {})
         IN Returned(write_register(
                       write_register(w, "state_priv", state_priv_reg),
                       "ttmp6", ttmp6),
                     {})
    [] OTHER ->
         gfx10_write_pseudo_register(w, regnum, offset, value_size, value)

(* architecture_t::write_pseudo_register *)
write_pseudo_register(w, regnum, offset, value_size, value) ==
  CASE w.arch = "gfx12" ->
         gfx12_write_pseudo_register(w, regnum, offset, value_size, value)
    [] w.arch \in {"gfx10_1", "gfx10_3", "gfx11"} ->
         gfx10_write_pseudo_register(w, regnum, offset, value_size, value)
    [] OTHER ->
         amdgcn_write_pseudo_register(w, regnum, offset, value_size, value)

(* amdgcn_architecture_t::read_pseudo_register *)
amdgcn_read_pseudo_register(w, regnum, offset, value_size) ==
  IF ~(is_pseudo_register(regnum) /\ is_pseudo_register_available(w, regnum))
  THEN Aborted(w)
  ELSE IF ~(value_size # 0 /\ offset + value_size <= register_size(regnum))
  THEN Aborted(w)
  ELSE CASE regnum = "null" -> Returned(w, {})
    [] regnum \in {"pseudo_exec_64", "pseudo_vcc_64"} ->
         IF w.lane_count # 64 THEN Aborted(w)
         ELSE Returned(
                w,
                memcpy_from(
                  read_register(w, IF regnum = "pseudo_exec_64"
                                   THEN "exec_64" ELSE "vcc_64"),
                  offset, value_size))
    [] regnum = "pseudo_status" ->
         LET status_reg ==
               (read_register(w, "status")
                  \ {sq_wave_status_priv_mask, sq_wave_status_halt_mask,
                     sq_wave_status_skip_export_mask})
               \cup (IF ttmp6_saved_status_halt_mask
                          \in read_register(w, "ttmp6")
                     THEN {sq_wave_status_halt_mask} ELSE {})
         IN Returned(w, memcpy_from(status_reg, offset, value_size))
    [] regnum = "wave_id" ->
         Returned(w, memcpy_from(
                       read_register(w, "ttmp4")
                         \cup {b + 32 : b \in read_register(w, "ttmp5")},
                       offset, value_size))
    [] regnum = "csp" ->
         Returned(w, memcpy_from(
                       {b - 29 : b \in read_register(w, "mode")
                                         \cap bit_mask(29, 31)},
                       offset, value_size))
    [] OTHER -> Aborted(w)

(* gfx10_architecture_t::read_pseudo_register *)
gfx10_read_pseudo_register(w, regnum, offset, value_size) ==
  IF ~(is_pseudo_register(regnum) /\ is_pseudo_register_available(w, regnum))
  THEN Aborted(w)
  ELSE IF ~(value_size # 0 /\ offset + value_size <= register_size(regnum))
  THEN Aborted(w)
  ELSE IF regnum \in {"pseudo_exec_32", "pseudo_vcc_32"}
  THEN IF w.lane_count # 32 THEN Aborted(w)
       ELSE Returned(
              w,
              memcpy_from(
                read_register(w, IF regnum = "pseudo_exec_32"
                                 THEN "exec_32" ELSE "vcc_32"),
                offset, value_size))
  ELSE amdgcn_read_pseudo_register(w, regnum, offset, value_size)

(* gfx12_architecture_t::read_pseudo_register *)
gfx12_read_pseudo_register(w, regnum, offset, value_size) ==
  IF ~(is_pseudo_register(regnum) /\ is_pseudo_register_available(w, regnum))
  THEN Aborted(w)
  ELSE IF ~(value_size # 0 /\ offset + value_size <= register_size(regnum))
  THEN Aborted(w)
  ELSE CASE regnum = "pseudo_status" ->
         Returned(w, memcpy_from(
                       read_register(w, "status") \ {sq_wave_status_priv_mask},
                       offset, value_size))
    [] regnum = "pseudo_state_priv" ->
         LET state_priv_reg ==
               (read_register(w, "state_priv")
                  \ {sq_wave_state_priv_halt_mask})
               \cup (IF ttmp6_saved_status_halt_mask
                          \in read_register(w, "ttmp6")
                     THEN {sq_wave_state_priv_halt_mask} ELSE {})
         IN Returned(w, memcpy_from(state_priv_reg, offset, value_size))
    [] OTHER -> gfx10_read_pseudo_register(w, regnum, offset, value_size)

(* architecture_t::read_pseudo_register *)
read_pseudo_register(w, regnum, offset, value_size) ==
  CASE w.arch = "gfx12" ->
         gfx12_read_pseudo_register(w, regnum, offset, value_size)
    [] w.arch \in {"gfx10_1", "gfx10_3", "gfx11"} ->
         gfx10_read_pseudo_register(w, regnum, offset, value_size)
    [] OTHER -> amdgcn_read_pseudo_register(w, regnum, offset, value_size)

(* wave_t::register_address: the registers the wave's save area holds.     *)
register_present(w, regnum) == regnum \in DOMAIN w.regs

(* wave_t::write_register (regnum, offset, value_size, value) *)
write_register_bytes(w, regnum, offset, value_size, value) ==
  IF is_pseudo_register(regnum)
  THEN write_pseudo_register(w, regnum, offset, value_size, value)
  ELSE IF ~register_present(w, regnum)
  THEN Thrown(w, "ERROR_INVALID_REGISTER_ID")
  ELSE IF value_size = 0 \/ offset + value_size > register_size(regnum)
  THEN Thrown(w, "ERROR_INVALID_ARGUMENT_COMPATIBILITY")
  ELSE Returned(write_register(
                  w, regnum,
                  memcpy_into(read_register(w, regnum), offset, value_size,
                              value)),
                {})

(* wave_t::read_register (regnum, offset, value_size, value) *)
read_register_bytes(w, regnum, offset, value_size) ==
  IF is_pseudo_register(regnum)
  THEN read_pseudo_register(w, regnum, offset, value_size)
  ELSE IF ~register_present(w, regnum)
  THEN Thrown(w, "ERROR_INVALID_REGISTER_ID")
  ELSE IF value_size = 0 \/ offset + value_size > register_size(regnum)
  THEN Thrown(w, "ERROR_INVALID_ARGUMENT_COMPATIBILITY")
  ELSE Returned(w, memcpy_from(read_register(w, regnum), offset, value_size))

(* architecture_t::register_read_only_mask: the read-only bits of a        *)
(* register, none where the function returns nullptr.                      *)
register_read_only_mask(a, regnum) ==
  CASE regnum = "pseudo_status" /\ a = "gfx12" ->
         bit_mask(0, 5) \cup bit_mask(7, 7) \cup bit_mask(12, 13)
           \cup bit_mask(17, 17) \cup bit_mask(19, 21)
    [] regnum = "pseudo_status" /\ a = "gfx11" -> bit_mask(0, 31)
    [] regnum = "pseudo_status" /\ a \notin {"gfx11", "gfx12"} ->
         bit_mask(5, 7) \cup bit_mask(9, 12) \cup bit_mask(14, 16)
           \cup bit_mask(18, 19) \cup bit_mask(22, 26) \cup bit_mask(28, 31)
    [] regnum = "pseudo_state_priv" /\ a = "gfx12" ->
         bit_mask(15, 17) \cup bit_mask(19, 20) \cup bit_mask(21, 31)
    [] regnum = "pc" -> bit_mask(0, 1)
    [] OTHER -> {}

(***************************************************************************)
(* The register writes that are checked: the wave's generation and lane    *)
(* count, the registers of its save area, the register written, the bytes  *)
(* written (offset and size) and the value.                                *)
(***************************************************************************)
RegArchs == {"gfx9", "gfx10_1", "gfx11", "gfx12"}

LaneCounts(a) == IF a = "gfx9" THEN {64} ELSE {32, 64}

RegNames(a, lane_count) ==
  {"status", "ttmp4", "ttmp5", "ttmp6", "mode", "s0", "pc"}
    \cup (IF lane_count = 64 THEN {"exec_64", "vcc_64"}
          ELSE {"exec_32", "vcc_32"})
    \cup (IF a = "gfx12" THEN {"state_priv"} ELSE {})

RegWave(a, lane_count, parked) ==
  [arch |-> a, lane_count |-> lane_count, aborted |-> FALSE,
   m_is_parked |-> parked, m_parked_pc |-> {8, 33},
   regs |-> [r \in RegNames(a, lane_count) |-> {}]]

(* Whole and partial accesses of a register of the given size; the last    *)
(* one is out of bounds.                                                   *)
Windows(size) ==
  {<<0, size>>, <<0, size \div 2>>, <<size \div 2, size \div 2>>,
   <<size \div 2 + size \div 8, 1>>, <<size - 1, 2>>}

(* A bit of a later byte of a register.  *)
FarBit(size) == 8 * (size \div 2 + size \div 8)

Values(bits, value_size) == SUBSET (bits \cap byte_window(0, value_size))

RegisterCall(w, regnum, window, value) ==
  [fn |-> "write_register",
   in |-> [wave |-> w, regnum |-> regnum, offset |-> window[1],
           value_size |-> window[2], value |-> value],
   out |-> Pending]

MaskRegisterInputs ==
  \E a \in RegArchs : \E lane_count \in LaneCounts(a) :
    \E which \in {"exec", "vcc"} : \E width \in {32, 64} :
      \E status \in SUBSET {sq_wave_status_priv_mask,
                            sq_wave_status_execz_mask,
                            sq_wave_status_vccz_mask,
                            sq_wave_status_halt_mask} :
        \E base \in SUBSET {0, FarBit(lane_count \div 8)} :
          \E window \in Windows(width \div 8) :
            \E value \in Values({0, 7, 8 * window[2] - 1}, window[2]) :
              LET base_regnum ==
                    IF lane_count = 64 THEN which \o "_64" ELSE which \o "_32"
                  w == RegWave(a, lane_count, FALSE)
              IN /\ width = lane_count \/ (base = {} /\ value = {})
                 /\ call = RegisterCall(
                             [w EXCEPT !.regs["status"] = status,
                                       !.regs[base_regnum] = base],
                             IF width = 64 THEN "pseudo_" \o which \o "_64"
                             ELSE "pseudo_" \o which \o "_32",
                             window, value)

StatusRegisterInputs ==
  \E a \in RegArchs : \E regnum \in {"pseudo_status", "pseudo_state_priv"} :
    \E bits \in SUBSET {sq_wave_status_scc_mask, sq_wave_status_priv_mask,
                        sq_wave_state_priv_scc_mask, sq_wave_status_halt_mask,
                        sq_wave_state_priv_halt_mask} :
      \E saved_halt \in SUBSET {ttmp6_saved_status_halt_mask} :
        \E window \in {<<0, 4>>, <<1, 1>>} :
          \E value \in Values({0, 1, 5, 6, 9, 13, 14}, window[2]) :
            LET w == RegWave(a, 64, FALSE)
                raw == IF regnum = "pseudo_status" THEN "status"
                       ELSE "state_priv"
            IN /\ raw \in DOMAIN w.regs \/ (bits = {} /\ value = {})
               /\ call = RegisterCall(
                           [w EXCEPT !.regs["ttmp6"] = saved_halt,
                                     !.regs[IF raw \in DOMAIN w.regs
                                            THEN raw ELSE "status"] = bits],
                           regnum, window, value)

OtherRegisterInputs ==
  \E a \in RegArchs : \E parked \in BOOLEAN :
    \E regnum \in {"csp", "wave_id", "null", "s0", "pc", "exec_64"} :
      \E old \in {{}, {1}, {3, 30}, {8, 33}} :
        \E window \in Windows(register_size(regnum)) :
          \E value \in Values({0, 1, 2, 3, 12, 31}, window[2]) :
            LET w == RegWave(a, IF a = "gfx9" THEN 64 ELSE 32, parked)
            IN call = RegisterCall(
                        [w EXCEPT !.m_parked_pc = old \cup {8},
                                  !.regs["pc"] = old,
                                  !.regs["s0"] = old,
                                  !.regs["mode"] = old \cap bit_mask(0, 31),
                                  !.regs["ttmp4"] = old \cap bit_mask(0, 31),
                                  !.regs["ttmp5"] = old \cap {1}],
                        regnum, window, value)

RegisterInputs ==
  MaskRegisterInputs \/ StatusRegisterInputs \/ OtherRegisterInputs

(* A client writes a register of the wave.  *)
WriteRegister ==
  /\ call.fn = "write_register"
  /\ call.out = Pending
  /\ call' = [call EXCEPT !.out =
                write_register_bytes(call.in.wave, call.in.regnum,
                                     call.in.offset, call.in.value_size,
                                     call.in.value)]
  /\ UNCHANGED <<wave, q_suspended, api_status, hw_excps, resumes, reported,
                 observed>>

(* The client then reads the whole register.  *)
ReadRegister ==
  /\ call.fn = "write_register"
  /\ call.out # Pending
  /\ call.out.outcome = "return"
  /\ call' = [fn |-> "read_register",
              in |-> [wave |-> call.out.wave, regnum |-> call.in.regnum,
                      offset |-> 0,
                      value_size |-> register_size(call.in.regnum),
                      written |-> call.in],
              out |-> read_register_bytes(call.out.wave, call.in.regnum, 0,
                                          register_size(call.in.regnum))]
  /\ UNCHANGED <<wave, q_suspended, api_status, hw_excps, resumes, reported,
                 observed>>

WriteRegisterDone == call.fn = "write_register" /\ call.out # Pending

ReadRegisterDone == call.fn = "read_register"

(* The exec and vcc pseudo registers, their base register and zero flag.   *)
IsMaskRegister(regnum) ==
  regnum \in {"pseudo_exec_32", "pseudo_exec_64", "pseudo_vcc_32",
              "pseudo_vcc_64"}

BaseOf(regnum) ==
  CASE regnum = "pseudo_exec_32" -> "exec_32"
    [] regnum = "pseudo_exec_64" -> "exec_64"
    [] regnum = "pseudo_vcc_32" -> "vcc_32"
    [] regnum = "pseudo_vcc_64" -> "vcc_64"

ZeroFlagOf(regnum) ==
  IF regnum \in {"pseudo_exec_32", "pseudo_exec_64"}
  THEN sq_wave_status_execz_mask ELSE sq_wave_status_vccz_mask

RoundTrip(regnums) ==
  (/\ ReadRegisterDone
   /\ call.out.outcome = "return"
   /\ call.in.regnum \in regnums)
  => LET wr == call.in.written
         mask == register_read_only_mask(wr.wave.arch, wr.regnum)
         window == byte_window(wr.offset, wr.value_size)
         before == read_register_bytes(wr.wave, wr.regnum, 0,
                                       register_size(wr.regnum)).value
         after == call.out.value
         written == {b + 8 * wr.offset : b \in wr.value}
     IN /\ after \cap (window \ mask) = written \ mask
        /\ after \cap mask = before \cap mask

AllRegnums ==
  {"pseudo_status", "pseudo_state_priv", "pseudo_exec_32", "pseudo_exec_64",
   "pseudo_vcc_32", "pseudo_vcc_64", "wave_id", "csp", "s0", "pc", "exec_64"}

(* C18: for every register of a wave, a write followed by a read returns   *)
(* the written value in the bits that are not read-only, and the read-only *)
(* bits are not changed by the write                                       *)
C18_WriteReadRoundTrip == RoundTrip(AllRegnums)

(***************************************************************************)
(* Instruction classification: classify_instruction and can_simulate of    *)
(* each generation.                                                        *)
(***************************************************************************)
MSG_DEALLOC_VGPRS == 3

(* gfx11_architecture_t::is_sendmsg *)
enc_is_sendmsg(a, instruction) ==
  a \in {"gfx11", "gfx12"} /\ is_sopp_encoding({54}, instruction)

(* The kind chosen by the chain of tests of classify_instruction, the kind *)
(* of its information and the register operands it converts.               *)
Chosen(kind, information_kind, ssrc_regnum, sdst_regnum) ==
  [kind |-> kind, information_kind |-> information_kind,
   ssrc_regnum |-> ssrc_regnum, sdst_regnum |-> sdst_regnum]

classified_kind(a, instruction) ==
  CASE enc_is_branch(a, instruction) ->
         Chosen("DIRECT_BRANCH", "pc_direct", NotPresent, NotPresent)
    [] ~enc_is_branch(a, instruction)
       /\ (enc_is_cbranch(a, instruction)
           \/ enc_is_cbranch_i_fork(a, instruction)) ->
         Chosen("DIRECT_BRANCH_CONDITIONAL", "pc_direct", NotPresent,
                NotPresent)
    [] OTHER ->
  CASE enc_is_cbranch_g_fork(a, instruction) ->
         Chosen("INDIRECT_BRANCH_CONDITIONAL_REGISTER_PAIR", "pc_indirect",
                scalar_operand_to_regnum(a, ssrc1_operand(instruction)),
                NotPresent)
    [] OTHER ->
  CASE enc_is_cbranch_join(a, instruction) ->
         Chosen("SPECIAL", "none", NotPresent, NotPresent)
    [] OTHER ->
  CASE enc_is_setpc(a, instruction) ->
         Chosen("INDIRECT_BRANCH_REGISTER_PAIR", "pc_indirect",
                scalar_operand_to_regnum(a, ssrc0_operand(instruction)),
                NotPresent)
    [] OTHER ->
  CASE enc_is_call(a, instruction) ->
         Chosen("DIRECT_CALL_REGISTER_PAIR", "pc_direct", NotPresent,
                scalar_operand_to_regnum(a, sdst_operand(instruction)))
    [] OTHER ->
  CASE enc_is_swappc(a, instruction) ->
         Chosen("INDIRECT_CALL_REGISTER_PAIRS", "pc_indirect",
                scalar_operand_to_regnum(a, ssrc0_operand(instruction)),
                scalar_operand_to_regnum(a, sdst_operand(instruction)))
    [] OTHER ->
  CASE enc_is_endpgm(a, instruction) ->
         Chosen("TERMINATE", "none", NotPresent, NotPresent)
    [] OTHER ->
  CASE enc_is_trap(a, instruction) ->
         Chosen("TRAP", "uint8", NotPresent, NotPresent)
    [] OTHER ->
  CASE enc_is_sethalt(a, instruction)
       /\ simm16_operand(instruction) % 2 = 1 ->
         Chosen("HALT", "none", NotPresent, NotPresent)
    [] OTHER ->
  CASE enc_is_barrier(a, instruction) ->
         Chosen("BARRIER", "none", NotPresent, NotPresent)
    [] OTHER ->
  CASE enc_is_sleep(a, instruction) ->
         Chosen("SLEEP", "none", NotPresent, NotPresent)
    [] OTHER ->
         Chosen(IF enc_is_sequential(a, instruction)
                THEN "SEQUENTIAL" ELSE "UNKNOWN",
                "none", NotPresent, NotPresent)

Classified(kind, instruction, information) ==
  [outcome |-> "return", kind |-> kind, size |-> instruction.size,
   information |-> information]

(* The register pair starting at a register, if the operand named one.     *)
register_pair(regnum) ==
  IF regnum = NotPresent THEN <<>> ELSE <<regnum, regnum + 1>>

(* amdgcn_architecture_t::classify_instruction *)
amdgcn_classify_instruction(a, address, instruction) ==
  LET chosen == classified_kind(a, instruction)
  IN CASE chosen.information_kind = "pc_direct" ->
            Classified(chosen.kind, instruction,
                       <<pc_relative(address, instruction)>>
                         \o register_pair(chosen.sdst_regnum))
       [] chosen.information_kind = "pc_indirect" ->
            IF chosen.ssrc_regnum = NotPresent
            THEN [outcome |-> "assert"]
            ELSE Classified(chosen.kind, instruction,
                            register_pair(chosen.ssrc_regnum)
                              \o register_pair(chosen.sdst_regnum))
       [] chosen.information_kind = "uint8" ->
            Classified(chosen.kind, instruction,
                       <<simm16_operand(instruction) % 256>>)
       [] OTHER -> Classified(chosen.kind, instruction, <<>>)

(* gfx10_architecture_t::classify_instruction *)
gfx10_classify_instruction(a, address, instruction) ==
  IF ~instruction_is_valid(instruction) THEN [outcome |-> "assert"]
  ELSE IF enc_is_subvector_loop_begin(a, instruction)
          \/ enc_is_subvector_loop_end(a, instruction)
  THEN Classified("DIRECT_BRANCH_CONDITIONAL", instruction,
                  <<pc_relative(address, instruction)>>)
  ELSE IF enc_is_code_end(a, instruction)
  THEN Classified("UNKNOWN", instruction, <<>>)
  ELSE amdgcn_classify_instruction(a, address, instruction)

(* architecture_t::classify_instruction *)
classify_instruction(a, address, instruction) ==
  IF IsGfx9Isa(a) THEN amdgcn_classify_instruction(a, address, instruction)
  ELSE gfx10_classify_instruction(a, address, instruction)

has_value(regnum) == regnum # NotPresent

(* amdgcn_architecture_t::can_simulate *)
amdgcn_can_simulate(a, instruction) ==
  IF enc_is_getpc(a, instruction) \/ enc_is_call(a, instruction)
     \/ enc_is_cbranch_i_fork(a, instruction)
  THEN has_value(scalar_operand_to_regnum(a, sdst_operand(instruction)))
  ELSE IF enc_is_setpc(a, instruction)
  THEN has_value(scalar_operand_to_regnum(a, ssrc0_operand(instruction)))
  ELSE IF enc_is_swappc(a, instruction)
  THEN /\ has_value(scalar_operand_to_regnum(a, ssrc0_operand(instruction)))
       /\ has_value(scalar_operand_to_regnum(a, sdst_operand(instruction)))
  ELSE \/ enc_is_branch(a, instruction)
       \/ enc_is_cbranch(a, instruction)
       \/ enc_is_cbranch_join(a, instruction)
       \/ enc_is_endpgm(a, instruction)

(* gfx10_architecture_t::can_simulate *)
gfx10_can_simulate(a, lane_count, instruction) ==
  IF ~instruction_is_valid(instruction) THEN FALSE
  ELSE IF enc_is_subvector_loop_begin(a, instruction)
          \/ enc_is_subvector_loop_end(a, instruction)
  THEN /\ has_value(scalar_operand_to_regnum(a, sdst_operand(instruction)))
       /\ lane_count = 64
  ELSE amdgcn_can_simulate(a, instruction)

(* gfx11_architecture_t::can_simulate *)
gfx11_can_simulate(a, lane_count, instruction) ==
  IF ~instruction_is_valid(instruction) THEN FALSE
  ELSE IF enc_is_sendmsg(a, instruction)
          /\ simm16_operand(instruction) % 256 = MSG_DEALLOC_VGPRS
  THEN TRUE
  ELSE gfx10_can_simulate(a, lane_count, instruction)

(* architecture_t::can_simulate *)
arch_can_simulate(a, lane_count, instruction) ==
  CASE IsGfx9Isa(a) -> amdgcn_can_simulate(a, instruction)
    [] IsGfx10Isa(a) -> gfx10_can_simulate(a, lane_count, instruction)
    [] OTHER -> gfx11_can_simulate(a, lane_count, instruction)

(* The instruction tests that hold of an instruction.  *)
encodings_of(a, instruction) ==
  {op \in 0 .. 127 : is_sopp_encoding({op}, instruction)}
    \cup {128 + op : op \in {op \in 0 .. 31 :
                               is_sopk_encoding({op}, instruction)}}
    \cup {256 + op : op \in {op \in 0 .. 255 :
                               is_sop1_encoding({op}, instruction)}}
    \cup {512 + op : op \in {op \in 0 .. 127 :
                               is_sop2_encoding({op}, instruction)}}
    \cup (IF enc_is_cbranch(a, instruction) THEN {-1} ELSE {})

tests_of(a, instruction) ==
  {t \in {"endpgm", "trap", "sethalt", "barrier", "sleep", "code_end",
          "branch", "cbranch", "call", "getpc", "setpc", "swappc",
          "cbranch_i_fork", "cbranch_g_fork", "cbranch_join",
          "subvector_loop_begin", "subvector_loop_end", "sendmsg"} :
     CASE t = "endpgm" -> enc_is_endpgm(a, instruction)
       [] t = "trap" -> enc_is_trap(a, instruction)
       [] t = "sethalt" -> enc_is_sethalt(a, instruction)
       [] t = "barrier" -> enc_is_barrier(a, instruction)
       [] t = "sleep" -> enc_is_sleep(a, instruction)
       [] t = "code_end" -> enc_is_code_end(a, instruction)
       [] t = "branch" -> enc_is_branch(a, instruction)
       [] t = "cbranch" -> enc_is_cbranch(a, instruction)
       [] t = "call" -> enc_is_call(a, instruction)
       [] t = "getpc" -> enc_is_getpc(a, instruction)
       [] t = "setpc" -> enc_is_setpc(a, instruction)
       [] t = "swappc" -> enc_is_swappc(a, instruction)
       [] t = "cbranch_i_fork" -> enc_is_cbranch_i_fork(a, instruction)
       [] t = "cbranch_g_fork" -> enc_is_cbranch_g_fork(a, instruction)
       [] t = "cbranch_join" -> enc_is_cbranch_join(a, instruction)
       [] t = "subvector_loop_begin" ->
            enc_is_subvector_loop_begin(a, instruction)
       [] t = "subvector_loop_end" ->
            enc_is_subvector_loop_end(a, instruction)
       [] t = "sendmsg" -> enc_is_sendmsg(a, instruction)}

(***************************************************************************)
(* The instructions that are classified: words of the four scalar formats  *)
(* in a buffer that holds the whole word, and the same words in a buffer   *)
(* that ends before the word does.  The bytes past the end of the buffer   *)
(* are what a read of the word would find there.                           *)
(***************************************************************************)
InstructionWords ==
  {Sopp(op7, simm16) : op7 \in 0 .. 63, simm16 \in {0, 1, 3, 65532}}
    \cup {Sopk(op5, sdst, 8) : op5 \in 0 .. 31, sdst \in {0, 3, 106}}
    \cup {Sop1(op8, sdst, ssrc0) :
            op8 \in {0, 28, 29, 30, 31, 32, 33, 46, 71, 72, 73},
            sdst \in {0, 3}, ssrc0 \in {2, 5, 128}}
    \cup {Sop2(op7, 0, ssrc1, ssrc0) :
            op7 \in {0, 41}, ssrc1 \in {2, 3, 128}, ssrc0 \in {4, 5}}

Truncated(bytes, n, size) ==
  [bytes |-> SubSeq(bytes, 1, n), beyond |-> bytes, size |-> size]

Instructions(bytes) ==
  {Decoded(bytes), [Decoded(bytes) EXCEPT !.size = 0]}
    \cup {Truncated(bytes, n, 0) : n \in 0 .. 3}
    \cup {Truncated(bytes, n, n) : n \in 1 .. 3}

ClassifyAddress == <<256, 0, 1, 0>>

ClassifyInputs ==
  \E a \in Archs : \E bytes \in InstructionWords :
    \E instruction \in Instructions(bytes) :
      \E lane_count \in {32, 64} :
        \E fn \in {"classify_instruction", "can_simulate", "is_encoding"} :
          /\ lane_count = 64 \/ (fn = "can_simulate" /\ ~IsGfx9Isa(a))
          /\ call = [fn |-> fn,
                     in |-> [arch |-> a, address |-> ClassifyAddress,
                             lane_count |-> lane_count,
                             instruction |-> instruction],
                     out |-> Pending]

ClassifyInstruction ==
  /\ call.fn = "classify_instruction"
  /\ call.out = Pending
  /\ call' = [call EXCEPT !.out =
                classify_instruction(call.in.arch, call.in.address,
                                     call.in.instruction)]
  /\ UNCHANGED <<wave, q_suspended, api_status, hw_excps, resumes, reported,
                 observed>>

CanSimulate ==
  /\ call.fn = "can_simulate"
  /\ call.out = Pending
  /\ call' = [call EXCEPT !.out =
                [outcome |-> "return",
                 result |-> arch_can_simulate(call.in.arch,
                                              call.in.lane_count,
                                              call.in.instruction)]]
  /\ UNCHANGED <<wave, q_suspended, api_status, hw_excps, resumes, reported,
                 observed>>

(* Every test of the instruction's encoding is applied to the buffer.      *)
IsEncoding ==
  /\ call.fn = "is_encoding"
  /\ call.out = Pending
  /\ call' = [call EXCEPT !.out =
                [outcome |-> "return",
                 encodings |-> encodings_of(call.in.arch,
                                            call.in.instruction),
                 tests |-> tests_of(call.in.arch, call.in.instruction)]]
  /\ UNCHANGED <<wave, q_suspended, api_status, hw_excps, resumes, reported,
                 observed>>

ClassifyDone == call.fn = "classify_instruction" /\ call.out # Pending

(* C19: the four bytes 00 00 81 BF classify as TERMINATE on a gfx9         *)
(* architecture, and the four bytes 00 00 B0 BF classify as TERMINATE on   *)
(* gfx11                                                                   *)
C19_EndpgmIsTerminate ==
  (/\ ClassifyDone
   /\ \/ /\ IsGfx9Isa(call.in.arch)
         /\ call.in.instruction = Decoded(<<0, 0, 129, 191>>)
      \/ /\ call.in.arch = "gfx11"
         /\ call.in.instruction = Decoded(<<0, 0, 176, 191>>))
  => /\ call.out.outcome = "return"
     /\ call.out.kind = "TERMINATE"

C19_Witness ==
  /\ ClassifyDone
  /\ call.in.arch = "gfx11"
  /\ call.in.instruction = Decoded(<<0, 0, 176, 191>>)
  /\ call.out.outcome = "return"
  /\ call.out.kind = "TERMINATE"
  /\ call.out.size = 4
  /\ call.out.information = <<>>

(* The buffer holds fewer bytes than one instruction word.  *)
ShortBuffer == capacity(call.in.instruction) < word_size

(* The same buffer with other bytes past its end.  *)
OtherBeyond(instruction) == [instruction EXCEPT !.beyond = <<0, 0, 0, 0>>]

(* C20: when the buffer holds fewer bytes than one instruction word, every *)
(* test of the instruction's encoding is false, and the classification and *)
(* the decision to simulate do not depend on bytes past the end of the     *)
(* buffer                                                                  *)
C20_ShortBufferNotDecoded ==
  (ShortBuffer /\ call.out # Pending)
  => CASE call.fn = "is_encoding" ->
            call.out.encodings = {} /\ call.out.tests = {}
       [] call.fn = "classify_instruction" ->
            call.out = classify_instruction(
                         call.in.arch, call.in.address,
                         OtherBeyond(call.in.instruction))
       [] call.fn = "can_simulate" ->
            call.out.result = arch_can_simulate(
                                call.in.arch, call.in.lane_count,
                                OtherBeyond(call.in.instruction))
       [] OTHER -> TRUE

(* Two of the four bytes of s_endpgm are in the buffer and the other two   *)
(* are past its end: no test holds.                                        *)
C20_Witness ==
  /\ call.fn = "is_encoding"
  /\ call.out # Pending
  /\ call.in.arch = "gfx9"
  /\ call.in.instruction = Truncated(<<0, 0, 129, 191>>, 2, 2)
  /\ call.out.encodings = {}
  /\ call.out.tests = {}

(***************************************************************************)
(* Displaced stepping of an instruction given by its bytes:                *)
(* can_execute_displaced of each generation and                            *)
(* wave_t::displaced_stepping_start.                                       *)
(***************************************************************************)

(* A variant of amdgcn_architecture_t::can_execute_displaced that lets     *)
(* s_setpc execute from the buffer.                                        *)
amdgcn_can_execute_displaced_setpc(a, instruction) ==
  IF ~instruction_is_valid(instruction) THEN FALSE
  ELSE IF \/ enc_is_branch(a, instruction)
          \/ enc_is_cbranch(a, instruction)
          \/ enc_is_cbranch_i_fork(a, instruction)
          \/ enc_is_call(a, instruction)
  THEN FALSE
  ELSE ~(\/ enc_is_cbranch_g_fork(a, instruction)
         \/ enc_is_cbranch_join(a, instruction)
         \/ enc_is_getpc(a, instruction)
         \/ enc_is_swappc(a, instruction))

(* amdgcn_architecture_t::can_execute_displaced *)
amdgcn_can_execute_displaced(a, instruction) ==
  IF ~instruction_is_valid(instruction) THEN FALSE
  ELSE IF \/ enc_is_branch(a, instruction)
          \/ enc_is_cbranch(a, instruction)
          \/ enc_is_cbranch_i_fork(a, instruction)
          \/ enc_is_call(a, instruction)
  THEN FALSE
  ELSE ~(\/ enc_is_cbranch_g_fork(a, instruction)
         \/ enc_is_cbranch_join(a, instruction)
         \/ enc_is_getpc(a, instruction)
         \/ enc_is_setpc(a, instruction)
         \/ enc_is_swappc(a, instruction))

(* gfx10_architecture_t::can_execute_displaced *)
gfx10_can_execute_displaced(a, instruction) ==
  IF ~instruction_is_valid(instruction) THEN FALSE
  ELSE IF enc_is_subvector_loop_begin(a, instruction)
          \/ enc_is_subvector_loop_end(a, instruction)
  THEN FALSE
  ELSE amdgcn_can_execute_displaced(a, instruction)

(* gfx11_architecture_t::can_execute_displaced *)
gfx11_can_execute_displaced(a, instruction) ==
  IF ~instruction_is_valid(instruction) THEN FALSE
  ELSE IF enc_is_sendmsg(a, instruction)
          /\ simm16_operand(instruction) % 256 = MSG_DEALLOC_VGPRS
  THEN FALSE
  ELSE gfx10_can_execute_displaced(a, instruction)

(* The virtual call architecture ().can_execute_displaced *)
arch_can_execute_displaced(a, instruction) ==
  CASE IsGfx9Isa(a) -> amdgcn_can_execute_displaced(a, instruction)
    [] IsGfx10Isa(a) -> gfx10_can_execute_displaced(a, instruction)
    [] OTHER -> gfx11_can_execute_displaced(a, instruction)

(* No displaced stepping operation of the queue starts at the wave's pc.   *)
NoOperation == [original |-> <<>>, is_simulated |-> FALSE,
                buffer |-> <<>>, waves |-> 0]

(* wave_t::displaced_stepping_start for a wave of lane_count lanes at an   *)
(* instruction of instruction.size bytes: operation is what the process    *)
(* finds for the wave's queue and pc, memory_status is the status of the   *)
(* read of the bytes after the breakpoint.  The result has the status, the *)
(* operation of the wave, and whether the wave's pc was moved to the       *)
(* operation's buffer.                                                     *)
wave_displaced_stepping_start(a, lane_count, operation, instruction, memory_status) ==
  LET sim == arch_can_simulate(a, lane_count, instruction)
      created == [original |-> instruction.bytes,
                  is_simulated |-> sim,
                  buffer |-> IF sim THEN <<>> ELSE instruction.bytes,
                  waves |-> 1]
      started(op) == [status |-> "SUCCESS", operation |-> op,
                      pc_displaced |-> ~op.is_simulated]
      thrown(status) == [status |-> status, operation |-> operation,
                         pc_displaced |-> FALSE]
  IN IF operation # NoOperation
     THEN started([operation EXCEPT !.waves = @ + 1])
     ELSE IF memory_status # "SUCCESS" THEN thrown(memory_status)
     ELSE IF instruction.size = 0 THEN thrown("ERROR_ILLEGAL_INSTRUCTION")
     ELSE IF ~arch_can_execute_displaced(a, instruction) /\ ~sim
     THEN thrown("ERROR_ILLEGAL_INSTRUCTION")
     ELSE started(created)

(***************************************************************************)
(* Two waves of one queue start displaced stepping at the same pc, the     *)
(* first with no operation to share, the second after it.                  *)
(***************************************************************************)
DisplacedInputs ==
  \E a \in Archs : \E bytes \in InstructionWords :
    \E size \in {0, word_size} : \E lane_count \in {32, 64} :
      \E memory_status \in {"SUCCESS", "ERROR_MEMORY_ACCESS"} :
        /\ lane_count = 64 \/ ~IsGfx9Isa(a)
        /\ call = [fn |-> "displaced_stepping_start",
                   in |-> [arch |-> a, lane_count |-> lane_count,
                           instruction |->
                             [Decoded(bytes) EXCEPT !.size = size],
                           memory_status |-> memory_status],
                   out |-> Pending]

(* The saved bytes the client passes for the second wave *)
OtherSavedBytes == {Sopp(0, 0), Sopp(2, 1), Sopp(32, 1), Sop1(29, 0, 2)}

DisplacedSteppingStart ==
  /\ call.fn = "displaced_stepping_start"
  /\ call.out = Pending
  /\ call' = [call EXCEPT !.out =
                wave_displaced_stepping_start(
                  call.in.arch, call.in.lane_count, NoOperation,
                  call.in.instruction, call.in.memory_status)]
  /\ UNCHANGED <<wave, q_suspended, api_status, hw_excps, resumes, reported,
                 observed>>

DisplacedSteppingShare ==
  /\ call.fn = "displaced_stepping_start"
  /\ call.out # Pending
  /\ call.out.operation.waves = 1
  /\ \E bytes \in OtherSavedBytes :
       call' = [call EXCEPT !.out =
                  wave_displaced_stepping_start(
                    call.in.arch, call.in.lane_count, call.out.operation,
                    Decoded(bytes), call.in.memory_status)]
  /\ UNCHANGED <<wave, q_suspended, api_status, hw_excps, resumes, reported,
                 observed>>

(* The instructions that change or read the pc, fork or join, or           *)
(* deallocate the vector registers.                                        *)
ControlFlow(a, instruction) ==
  \/ enc_is_branch(a, instruction)
  \/ enc_is_cbranch(a, instruction)
  \/ enc_is_call(a, instruction)
  \/ enc_is_getpc(a, instruction)
  \/ enc_is_setpc(a, instruction)
  \/ enc_is_swappc(a, instruction)
  \/ enc_is_cbranch_i_fork(a, instruction)
  \/ enc_is_cbranch_g_fork(a, instruction)
  \/ enc_is_cbranch_join(a, instruction)
  \/ /\ enc_is_sendmsg(a, instruction)
     /\ simm16_operand(instruction) % 256 = MSG_DEALLOC_VGPRS

DisplacedDone ==
  call.fn = "displaced_stepping_start" /\ call.out # Pending

(* C21: a branch, conditional branch, call, get, set or swap of the pc, a  *)
(* fork or join, or a deallocate-VGPRs message is never in the buffer a    *)
(* wave's pc is moved to, and displaced_stepping_start of such an          *)
(* instruction, once its bytes are read, either succeeds with a simulated  *)
(* operation or fails with ILLEGAL_INSTRUCTION                             *)
C21_ControlFlowNotDisplaced ==
  DisplacedDone
  => /\ call.out.pc_displaced
        => ~ControlFlow(call.in.arch, Decoded(call.out.operation.buffer))
     /\ (/\ ControlFlow(call.in.arch, call.in.instruction)
         /\ call.in.memory_status = "SUCCESS"
         /\ call.out.operation.waves <= 1)
        => \/ call.out.status = "ERROR_ILLEGAL_INSTRUCTION"
           \/ /\ call.out.status = "SUCCESS"
              /\ call.out.operation.is_simulated
              /\ ~call.out.pc_displaced

(* s_setpc_b64 of a constant cannot be simulated and is refused; s_branch  *)
(* is simulated.                                                           *)
C21_Witness ==
  /\ DisplacedDone
  /\ call.in.arch = "gfx9"
  /\ call.in.memory_status = "SUCCESS"
  /\ call.in.instruction.size = word_size
  /\ \/ /\ call.in.instruction = Decoded(Sop1(29, 0, 128))
        /\ call.out.status = "ERROR_ILLEGAL_INSTRUCTION"
     \/ /\ call.in.instruction = Decoded(Sopp(2, 1))
        /\ call.out.operation.is_simulated

(***************************************************************************)
(* Where a register access is served from: the register cache of the wave, *)
(* the saved parked pc, or the save area in memory.  The wave here is      *)
(*   [rec: the CWSR record, address: the addresses of its registers,       *)
(*    m_state, m_stop_reason, m_stop_requested,                            *)
(*    m_last_stop_event, m_is_parked, m_register_cache, visible,           *)
(*    suspended: whether its queue is suspended,                           *)
(*    accesses: the register accesses of the last call]                    *)
(***************************************************************************)

(* The registers cached from the trap temporaries on only.  *)
register_cache_range_ttmps(w) ==
  [begin |-> w.address[first_ttmp],
   size |-> w.address[last_ttmp] + 4 - w.address[first_ttmp]]

(* wave_t::update: the cache runs from the address of the first hardware   *)
(* register to the end of the last trap temporary.                         *)
register_cache_range(w) ==
  [begin |-> w.address[first_hwreg],
   size |-> w.address[last_ttmp] + 4 - w.address[first_hwreg]]

(* The cache of a wave that was never updated *)
NoCache == [begin |-> 0, size |-> 0]

(* memory_cache_t::contains *)
cache_contains(cache, address, size) ==
  /\ address >= cache.begin
  /\ address + size <= cache.begin + cache.size

(* architecture_t::register_size of the registers accessed, in bytes *)
accessed_register_size(regnum) ==
  IF regnum \in {regnum_pc, regnum_exec_64} THEN 8 ELSE 4

(* wave_t::read_register and wave_t::write_register of a register that is  *)
(* not a pseudo register: what serves the access.                          *)
register_access(w, regnum) ==
  [regnum |-> regnum, suspended |-> w.suspended,
   served |->
     IF w.address[regnum] \in {NotPresent, AssertFailed} THEN "none"
     ELSE IF w.m_is_parked /\ regnum = regnum_pc THEN "parked_pc"
     ELSE IF cache_contains(w.m_register_cache, w.address[regnum],
                            accessed_register_size(regnum))
     THEN "cache"
     ELSE IF ~w.suspended THEN "assert"
     ELSE "memory"]

(* The wave after it accessed the registers *)
accessed(w, regnums) ==
  [w EXCEPT !.accesses = @ \cup {register_access(w, r) : r \in regnums}]

regnum_ttmp6 == first_ttmp + 6

(* The registers of wave_get_state *)
get_state_registers(a) == {regnum_ttmp6, regnum_pc}

(* The registers of amdgcn_architecture_t::wave_set_state and of           *)
(* gfx12_architecture_t::wave_set_state                                    *)
set_state_registers(a) ==
  IF a = "gfx12"
  THEN {regnum_ttmp6, regnum_state_priv, regnum_trap_ctrl}
  ELSE {regnum_status, regnum_mode, regnum_ttmp6}

(* wave_t::park *)
access_park(w) == [accessed(w, {regnum_pc}) EXCEPT !.m_is_parked = TRUE]

(* wave_t::unpark *)
access_unpark(w) ==
  accessed([accessed(w, {regnum_pc}) EXCEPT !.m_is_parked = FALSE],
           {regnum_pc})

(* wave_t::raise_event of a stop event *)
access_raise_event(w) == [w EXCEPT !.m_last_stop_event = "queued"]

(* wave_t::update of a wave whose queue is suspended; halted is whether    *)
(* the hardware wave is found halted by the trap handler.                  *)
access_update(w, halted) ==
  IF w.m_state = STOP THEN w
  ELSE LET notify(parked) ==
             IF parked.visible /\ parked.m_state = STOP
                /\ parked.m_stop_reason # {}
             THEN access_raise_event(parked) ELSE parked
           park_stopped(got) ==
             notify(IF got.m_state = STOP
                       /\ ~can_halt_at_endpgm(w.rec.arch)
                    THEN access_park(got) ELSE got)
           get_wave_state(read) ==
             park_stopped(IF halted
                          THEN [read EXCEPT
                                  !.m_state = STOP,
                                  !.m_stop_reason =
                                    IF w.m_state = SINGLE_STEP
                                    THEN {"SINGLE_STEP"} ELSE {"TRAP"}]
                          ELSE read)
       IN get_wave_state(
            accessed([w EXCEPT !.m_register_cache =
                                 register_cache_range(w)],
                     get_state_registers(w.rec.arch)))

(* wave_t::terminate, with the set_state (RUN) it ends with *)
access_terminate(w) ==
  LET resumed(unparked) ==
        [accessed(unparked, {regnum_pc}) EXCEPT !.m_stop_reason = {}]
      unparked(set) ==
        resumed(IF ~can_halt_at_endpgm(w.rec.arch)
                THEN access_unpark(set) ELSE set)
      set_state_run(hidden) ==
        IF w.m_state = RUN THEN hidden
        ELSE unparked([accessed(hidden, set_state_registers(w.rec.arch))
                         EXCEPT !.m_state = RUN,
                                !.m_stop_requested = FALSE])
  IN set_state_run([accessed(w, {regnum_pc}) EXCEPT !.visible = FALSE])

(* wave_t::set_state; at is the instruction the wave is at: s_endpgm, an   *)
(* instruction with a simulated displaced stepping operation that writes a *)
(* scalar register, or another one.                                        *)
access_set_state(w, state, at) ==
  LET prev_state == w.m_state
      stepped(requested) ==
        [accessed(requested, {first_sgpr, regnum_pc})
           EXCEPT !.m_state = STOP, !.m_stop_reason = {"SINGLE_STEP"}]
      changed(parked) ==
        IF state # STOP
        THEN [accessed(parked, {regnum_pc}) EXCEPT !.m_stop_reason = {}]
        ELSE IF prev_state # STOP
        THEN access_raise_event([parked EXCEPT !.m_stop_reason = {}])
        ELSE parked
      parked(set) ==
        changed(IF can_halt_at_endpgm(w.rec.arch) THEN set
                ELSE IF state = STOP THEN access_park(set)
                ELSE access_unpark(set))
      set_wave_state(requested) ==
        IF state = SINGLE_STEP /\ at = "endpgm"
        THEN access_raise_event(
               access_terminate(accessed(requested, {regnum_pc})))
        ELSE IF state = SINGLE_STEP /\ at = "simulated"
        THEN access_raise_event(stepped(requested))
        ELSE parked([accessed(requested, set_state_registers(w.rec.arch))
                       EXCEPT !.m_state = state])
  IN IF state = prev_state THEN w
     ELSE set_wave_state([w EXCEPT !.m_stop_requested = (state = STOP)])

(* scoped_queue_suspend_t: the queue is suspended for the call, and its    *)
(* waves are updated, when it was not suspended already.                   *)
access_scoped_suspend(w, halted) ==
  IF w.suspended THEN w
  ELSE access_update([w EXCEPT !.suspended = TRUE], halted)

(* amd_dbgapi_wave_stop *)
access_wave_stop(w, halted) ==
  IF client_visible_state(w) = STOP \/ w.m_stop_requested THEN w
  ELSE [access_set_state(access_scoped_suspend(w, halted), STOP, "other")
          EXCEPT !.suspended = w.suspended]

(* amd_dbgapi_wave_resume *)
access_wave_resume(w, resume_mode, at) ==
  IF \/ client_visible_state(w) # STOP
     \/ w.m_last_stop_event \in {"queued", "reported"}
     \/ at = "simulated" /\ resume_mode # SINGLE_STEP
  THEN w
  ELSE [access_set_state(access_scoped_suspend(w, FALSE), resume_mode, at)
          EXCEPT !.suspended = w.suspended]

(* wave_t::exec_mask *)
exec_mask_register(w) ==
  IF cwsr_lane_count(w.rec) = 32 THEN regnum_exec_32 ELSE regnum_exec_64

(* amd_dbgapi_wave_get_info *)
access_wave_get_info(w, query) ==
  IF query \in {"PC", "EXEC_MASK"} /\ client_visible_state(w) # STOP THEN w
  ELSE CASE query = "PC" -> accessed(w, {regnum_pc})
         [] query = "EXEC_MASK" -> accessed(w, {exec_mask_register(w)})
         [] OTHER -> w

(***************************************************************************)
(* The calls of a client on one wave: its queue is suspended and resumed,  *)
(* the wave is stopped, resumed and asked for its pc and exec mask, and    *)
(* its stop events are reported and processed.                             *)
(***************************************************************************)
AccessArchs == {"gfx9", "gfx940", "gfx10_1", "gfx11", "gfx12"}

(* The registers the calls access, and the two that bound the cache *)
AccessedRegnums ==
  {first_hwreg, first_ttmp, last_ttmp, regnum_ttmp6, regnum_pc,
   regnum_status, regnum_mode, regnum_state_priv, regnum_trap_ctrl,
   regnum_exec_32, regnum_exec_64, first_sgpr}

(* The wave as its constructor leaves it, in a suspended queue *)
CreatedWave(rec) ==
  [rec |-> rec,
   address |-> [regnum \in AccessedRegnums |->
                  register_address(rec, regnum)],
   m_state |-> RUN, m_stop_reason |-> {},
   m_stop_requested |-> FALSE, m_last_stop_event |-> "none",
   m_is_parked |-> FALSE, m_register_cache |-> NoCache, visible |-> TRUE,
   suspended |-> TRUE, accesses |-> {}]

AccessCall(fn, w) == [fn |-> fn, in |-> w.rec, out |-> w]

(* A wave is created by the update of its queue, which updates it *)
AccessInputs ==
  \E rec \in CwsrRecords : \E halted \in BOOLEAN :
    /\ rec.arch \in AccessArchs
    /\ call = AccessCall("update", access_update(CreatedWave(rec), halted))

(* The wave at the start of a call: the accesses of the call before are    *)
(* forgotten.                                                              *)
AccessWave == [call.out EXCEPT !.accesses = {}]

AccessStep(fn, w) ==
  /\ call.out.visible
  /\ call' = AccessCall(fn, w)
  /\ UNCHANGED <<wave, q_suspended, api_status, hw_excps, resumes, reported,
                 observed>>

(* The client suspends the queue: its waves are updated *)
AccessQueueSuspend ==
  /\ ~call.out.suspended
  /\ \E halted \in BOOLEAN :
       AccessStep("update",
                  access_update([AccessWave EXCEPT !.suspended = TRUE],
                                halted))

AccessQueueResume ==
  /\ call.out.suspended
  /\ AccessStep("queue_resume", [AccessWave EXCEPT !.suspended = FALSE])

AccessWaveStop ==
  /\ call.out.visible
  /\ \E halted \in BOOLEAN :
       AccessStep("wave_stop", access_wave_stop(AccessWave, halted))

AccessWaveResume ==
  /\ call.out.visible
  /\ \E resume_mode \in {RUN, SINGLE_STEP} :
       \E at \in {"other", "endpgm", "simulated"} :
         AccessStep("wave_resume",
                    access_wave_resume(AccessWave, resume_mode, at))

AccessWaveGetInfo ==
  /\ call.out.visible
  /\ \E query \in {"STATE", "PC", "EXEC_MASK"} :
       AccessStep("wave_get_info", access_wave_get_info(AccessWave, query))

AccessEventReported ==
  /\ call.out.m_last_stop_event = "queued"
  /\ AccessStep("event", [AccessWave EXCEPT !.m_last_stop_event = "reported"])

AccessEventProcessed ==
  /\ call.out.m_last_stop_event = "reported"
  /\ AccessStep("event",
                [AccessWave EXCEPT !.m_last_stop_event = "processed"])

(* C22: a register access is served by the save area in memory only while  *)
(* the queue of the wave is suspended, and an access made while the queue  *)
(* is not suspended is served by the register cache or the saved parked pc *)
C22_MemoryOnlyWhileSuspended ==
  \A access \in call.out.accesses :
    /\ access.served = "memory" => access.suspended
    /\ ~access.suspended => access.served \in {"cache", "parked_pc"}

(* The pc of a stopped wave is read from the cache while the queue runs,   *)
(* and a scalar register is written to memory by a simulated step.         *)
C22_Witness ==
  \/ /\ call.fn = "wave_get_info"
     /\ \E access \in call.out.accesses :
          /\ ~access.suspended
          /\ access.regnum = regnum_pc
          /\ access.served = "cache"
  \/ /\ call.fn = "wave_resume"
     /\ \E access \in call.out.accesses :
          /\ access.suspended
          /\ ~call.out.suspended
          /\ access.regnum = first_sgpr
          /\ access.served = "memory"

(***************************************************************************)
(* The entry points amd_dbgapi_disassemble_instruction and                 *)
(* amd_dbgapi_classify_instruction: the status each returns.  The          *)
(* arguments are                                                           *)
(*   [is_initialized, memory_null, size_null, architecture_found,          *)
(*    address, instruction, kind_null, instruction_text_null,              *)
(*    address_operands: how many the disassembler found,                   *)
(*    symbolizer: "null" or what the callback does]                        *)
(***************************************************************************)

(* A variant of amd_dbgapi_disassemble_instruction's symbolizer loop that  *)
(* reports a failed callback as an invalid argument.                       *)
symbolize_invalid_argument(args) ==
  IF args.address_operands = 0 \/ args.symbolizer = "null" THEN "SUCCESS"
  ELSE CASE args.symbolizer = "SUCCESS" -> "SUCCESS"
         [] args.symbolizer \in {"SUCCESS_NULL_TEXT", "SUCCESS_EMPTY_TEXT"} ->
              "ERROR"
         [] args.symbolizer = "ERROR_SYMBOL_NOT_FOUND" -> "SUCCESS"
         [] OTHER -> "ERROR_INVALID_ARGUMENT"

(* The loop over the address operands of                                   *)
(* amd_dbgapi_disassemble_instruction: the status it throws, or SUCCESS.   *)
symbolize(args) ==
  IF args.address_operands = 0 \/ args.symbolizer = "null" THEN "SUCCESS"
  ELSE CASE args.symbolizer = "SUCCESS" -> "SUCCESS"
         [] args.symbolizer \in {"SUCCESS_NULL_TEXT", "SUCCESS_EMPTY_TEXT"} ->
              "ERROR"
         [] args.symbolizer = "ERROR_SYMBOL_NOT_FOUND" -> "SUCCESS"
         [] OTHER -> "ERROR_CLIENT_CALLBACK"

(* amd_dbgapi_disassemble_instruction *)
amd_dbgapi_disassemble_instruction(args) ==
  IF ~args.is_initialized THEN "ERROR_NOT_INITIALIZED"
  ELSE IF args.memory_null \/ args.size_null
          \/ capacity(args.instruction) = 0
  THEN "ERROR_INVALID_ARGUMENT"
  ELSE IF ~args.architecture_found THEN "ERROR_INVALID_ARCHITECTURE_ID"
  ELSE IF align_down(args.address, minimum_instruction_alignment)
          # args.address
  THEN "ERROR_INVALID_ARGUMENT"
  ELSE IF args.instruction_text_null
  THEN IF ~instruction_is_valid(args.instruction)
       THEN "ERROR_ILLEGAL_INSTRUCTION" ELSE "SUCCESS"
  ELSE IF args.instruction.size = 0 THEN "ERROR_ILLEGAL_INSTRUCTION"
  ELSE symbolize(args)

(* amd_dbgapi_classify_instruction *)
amd_dbgapi_classify_instruction(args) ==
  IF ~args.is_initialized THEN "ERROR_NOT_INITIALIZED"
  ELSE IF args.memory_null \/ args.size_null
          \/ capacity(args.instruction) = 0 \/ args.kind_null
  THEN "ERROR_INVALID_ARGUMENT"
  ELSE IF ~args.architecture_found THEN "ERROR_INVALID_ARCHITECTURE_ID"
  ELSE IF align_down(args.address, minimum_instruction_alignment)
          # args.address
  THEN "ERROR_INVALID_ARGUMENT"
  ELSE IF ~instruction_is_valid(args.instruction)
  THEN "ERROR_ILLEGAL_INSTRUCTION"
  ELSE "SUCCESS"

(***************************************************************************)
(* Two calls of the entry points, one after the other.                     *)
(***************************************************************************)
ApiInstructions ==
  {Decoded(Sopp(0, 0)), [Decoded(Sopp(0, 0)) EXCEPT !.size = 0],
   Truncated(<<>>, 0, 0)}

ApiAddresses == {ClassifyAddress, <<258, 0, 1, 0>>}

Symbolizers ==
  {"null", "SUCCESS", "SUCCESS_NULL_TEXT", "SUCCESS_EMPTY_TEXT",
   "ERROR_SYMBOL_NOT_FOUND", "ERROR"}

ApiArgs(fn, flags, address, instruction, address_operands, symbolizer) ==
  [fn |-> fn, is_initialized |-> flags[1], memory_null |-> flags[2],
   size_null |-> flags[3], architecture_found |-> flags[4],
   kind_null |-> flags[5], instruction_text_null |-> flags[6],
   address |-> address, instruction |-> instruction,
   address_operands |-> address_operands, symbolizer |-> symbolizer]

(* What is wrong with the arguments of a call *)
Faults(args) ==
  (IF args.is_initialized /\ ~args.memory_null /\ ~args.size_null
      /\ capacity(args.instruction) # 0
      /\ (args.fn = "disassemble_instruction" \/ ~args.kind_null)
   THEN {} ELSE {"arguments"})
  \cup (IF args.architecture_found THEN {} ELSE {"architecture"})
  \cup (IF is_aligned(args.address, minimum_instruction_alignment)
        THEN {} ELSE {"address"})
  \cup (IF instruction_is_valid(args.instruction) THEN {}
        ELSE {"instruction"})
  \cup (IF args.fn = "disassemble_instruction"
           /\ ~args.instruction_text_null /\ args.address_operands > 0
        THEN CASE args.symbolizer = "ERROR" -> {"callback"}
               [] args.symbolizer \in {"SUCCESS_NULL_TEXT",
                                       "SUCCESS_EMPTY_TEXT"} ->
                    {"symbol_text"}
               [] OTHER -> {}
        ELSE {})

ReportedFaults == {"architecture", "address", "instruction", "callback"}

NoFlags == <<TRUE, FALSE, FALSE, TRUE, FALSE, FALSE>>

(* The second call has one thing wrong, or nothing *)
SecondCalls(fn) ==
  {ApiArgs(fn, [NoFlags EXCEPT ![4] = found], address, instruction, 1,
           symbolizer) :
     found \in BOOLEAN, address \in ApiAddresses,
     instruction \in {Decoded(Sopp(0, 0)),
                      [Decoded(Sopp(0, 0)) EXCEPT !.size = 0]},
     symbolizer \in {"SUCCESS", "ERROR"}}

ApiInputs ==
  \E fn \in {"disassemble_instruction", "classify_instruction"} :
    \E flags \in [1 .. 6 -> BOOLEAN] : \E address \in ApiAddresses :
      \E instruction \in ApiInstructions : \E address_operands \in {0, 1} :
        \E symbolizer \in Symbolizers :
          \E fn2 \in {"disassemble_instruction", "classify_instruction"} :
            \E second \in SecondCalls(fn2) :
              /\ Cardinality(Faults(second)) <= 1
              /\ call = [fn |-> "api",
                         in |-> <<ApiArgs(fn, flags, address, instruction,
                                          address_operands, symbolizer),
                                  second>>,
                         out |-> <<>>]

DisassembleInstruction ==
  /\ call.fn = "api"
  /\ Len(call.out) < 2
  /\ call.in[Len(call.out) + 1].fn = "disassemble_instruction"
  /\ call' = [call EXCEPT !.out =
                Append(@, amd_dbgapi_disassemble_instruction(
                            call.in[Len(call.out) + 1]))]
  /\ UNCHANGED <<wave, q_suspended, api_status, hw_excps, resumes, reported,
                 observed>>

ClassifyInstructionApi ==
  /\ call.fn = "api"
  /\ Len(call.out) < 2
  /\ call.in[Len(call.out) + 1].fn = "classify_instruction"
  /\ call' = [call EXCEPT !.out =
                Append(@, amd_dbgapi_classify_instruction(
                            call.in[Len(call.out) + 1]))]
  /\ UNCHANGED <<wave, q_suspended, api_status, hw_excps, resumes, reported,
                 observed>>

ApiDone == call.fn = "api" /\ Len(call.out) = 2

(* C23: two calls of the classify and disassemble entry points that fail   *)
(* for two different reasons among an invalid architecture id, a           *)
(* misaligned address, an illegal instruction and a failed symbolizer      *)
(* callback return two different statuses, neither of them SUCCESS         *)
C23_FourDifferentStatuses ==
  (/\ ApiDone
   /\ \E first, second \in ReportedFaults :
        /\ first # second
        /\ Faults(call.in[1]) = {first}
        /\ Faults(call.in[2]) = {second})
  => /\ call.out[1] # call.out[2]
     /\ call.out[1] # "SUCCESS"
     /\ call.out[2] # "SUCCESS"

(* A classify call at a misaligned address and a disassemble call whose    *)
(* symbolizer fails                                                        *)
C23_Witness ==
  /\ ApiDone
  /\ call.in[1].fn = "classify_instruction"
  /\ Faults(call.in[1]) = {"address"}
  /\ call.in[2].fn = "disassemble_instruction"
  /\ Faults(call.in[2]) = {"callback"}
  /\ call.out = <<"ERROR_INVALID_ARGUMENT", "ERROR_CLIENT_CALLBACK">>

(***************************************************************************)
(* dispatch_packet_address: the address of the packet a wave was           *)
(* dispatched from, from the packet index its trap temporaries hold.  The  *)
(* queue is [address, size: 64-bit, packet_size].                          *)
(***************************************************************************)

(* x < y on uint64_t *)
less64(x, y) ==
  \E i \in 1 .. 4 : x[i] < y[i] /\ \A j \in i + 1 .. 4 : x[j] = y[j]

(* index * packet_size on uint64_t, for an index of at most 32 bits and a  *)
(* packet size below 2^15                                                  *)
mul64(index, packet_size) ==
  <<((index % Limb) * packet_size) % Limb,
    ((index \div Limb) * packet_size
       + ((index % Limb) * packet_size) \div Limb) % Limb,
    ((index \div Limb) * packet_size
       + ((index % Limb) * packet_size) \div Limb) \div Limb,
    0>>

(* (ttmp6 & ttmp6_queue_packet_id_mask) >> ttmp6_queue_packet_id_shift,    *)
(* and the same of ttmp8 on gfx12: bits 0 to 24                            *)
ttmp6_queue_packet_id(ttmp) == (ttmp.hi % 512) * Limb + ttmp.lo

(* (ttmp11 & ttmp11_queue_packet_id_mask) >> ttmp11_queue_packet_id_shift: *)
(* bits 6 to 30                                                            *)
ttmp11_queue_packet_id(ttmp) == (ttmp.hi % 32768) * 1024 + ttmp.lo \div 64

(* The packet index of the wave, from the register its generation keeps    *)
(* it in.                                                                  *)
dispatch_packet_index(a, ttmp) ==
  IF a = "gfx940" THEN ttmp11_queue_packet_id(ttmp)
  ELSE ttmp6_queue_packet_id(ttmp)

(* The address is returned whatever the packet index is.  *)
packet_address_unchecked(queue, index) ==
  [outcome |-> "return",
   address |-> add64(queue.address,
                     mul64(index, queue.packet_size))]

(* The bounds test and the result of dispatch_packet_address *)
packet_address(queue, index) ==
  IF ~less64(mul64(index, queue.packet_size), queue.size)
  THEN [outcome |-> "fatal_error", address |-> <<>>]
  ELSE [outcome |-> "return",
        address |-> add64(queue.address,
                          mul64(index, queue.packet_size))]

(* gfx9_architecture_t::dispatch_packet_address,                           *)
(* gfx940_t::dispatch_packet_address and                                   *)
(* gfx12_architecture_t::dispatch_packet_address                           *)
dispatch_packet_address(a, spi_ttmps_setup_enabled, ttmp, queue) ==
  IF ~spi_ttmps_setup_enabled
  THEN [outcome |-> "nullopt", address |-> <<>>]
  ELSE packet_address(queue, dispatch_packet_index(a, ttmp))

(***************************************************************************)
(* The queues and the values of the trap temporary the packet index is     *)
(* read from.                                                              *)
(***************************************************************************)
PacketArchs == {"gfx9", "gfx940", "gfx12"}

(* The size of an AQL packet *)
aql_packet_size == 64

(* Queues of 4, 65536 and 2^25 packets, and one whose size is not a whole  *)
(* number of packets, low in memory and across a 2^48 boundary; the range  *)
(* of a queue does not wrap around the address space                       *)
PacketQueues ==
  {[address |-> address, size |-> size, packet_size |-> aql_packet_size] :
     address \in {<<4096, 0, 1, 0>>, <<0, 32768, 65535, 0>>},
     size \in {<<256, 0, 0, 0>>, <<0, 64, 0, 0>>, <<0, 32768, 0, 0>>,
               <<96, 0, 0, 0>>}}

TtmpValues ==
  {[hi |-> hi, lo |-> lo] :
     hi \in {0, 1, 63, 64, 511, 512, 32767, 32768, 65535},
     lo \in {0, 1, 2, 3, 4, 63, 64, 128, 192, 256, 65535}}

PacketInputs ==
  \E a \in PacketArchs : \E enabled \in BOOLEAN :
    \E ttmp \in TtmpValues : \E queue \in PacketQueues :
      call = [fn |-> "dispatch_packet_address",
              in |-> [arch |-> a, spi_ttmps_setup_enabled |-> enabled,
                      ttmp |-> ttmp, queue |-> queue],
              out |-> Pending]

DispatchPacketAddress ==
  /\ call.fn = "dispatch_packet_address"
  /\ call.out = Pending
  /\ call' = [call EXCEPT !.out =
                dispatch_packet_address(
                  call.in.arch, call.in.spi_ttmps_setup_enabled,
                  call.in.ttmp, call.in.queue)]
  /\ UNCHANGED <<wave, q_suspended, api_status, hw_excps, resumes, reported,
                 observed>>

PacketDone == call.fn = "dispatch_packet_address" /\ call.out # Pending

(* The address is in [queue address, queue address + queue size) *)
InQueue(queue, address) ==
  /\ ~less64(address, queue.address)
  /\ less64(address, add64(queue.address, queue.size))

(* The packets of the queue start at the multiples of the packet size      *)
(* below the size of the queue.                                            *)
IndexInBounds(a, ttmp, queue) ==
  less64(mul64(dispatch_packet_index(a, ttmp), queue.packet_size),
         queue.size)

(* C24: dispatch_packet_address returns an address in [queue address,      *)
(* queue address + queue size) or, when the packet index read from the     *)
(* wave is out of the bounds of the queue, takes the fatal-error path; it  *)
(* returns no address outside the queue                                    *)
C24_PacketAddressInQueue ==
  PacketDone
  => /\ call.out.outcome = "return"
        => InQueue(call.in.queue, call.out.address)
     /\ (/\ call.in.spi_ttmps_setup_enabled
         /\ ~IndexInBounds(call.in.arch, call.in.ttmp, call.in.queue))
        => call.out.outcome = "fatal_error"
     /\ (/\ call.in.spi_ttmps_setup_enabled
         /\ IndexInBounds(call.in.arch, call.in.ttmp, call.in.queue))
        => call.out.outcome = "return"

(* The last packet of a queue of 4 is returned, and the packet after it   *)
(* is a fatal error.                                                       *)
C24_Witness ==
  /\ PacketDone
  /\ call.in.arch = "gfx9"
  /\ call.in.spi_ttmps_setup_enabled
  /\ call.in.queue = [address |-> <<4096, 0, 1, 0>>,
                      size |-> <<256, 0, 0, 0>>,
                      packet_size |-> aql_packet_size]
  /\ \/ /\ call.in.ttmp = [hi |-> 512, lo |-> 3]
        /\ call.out = [outcome |-> "return", address |-> <<4288, 0, 1, 0>>]
     \/ /\ call.in.ttmp = [hi |-> 0, lo |-> 4]
        /\ call.out.outcome = "fatal_error"

(***************************************************************************)
(* Parking of stopped waves.                                               *)
(***************************************************************************)
(* The instruction the hardware pc of the wave points to.  *)
hardware_instruction(w) == instruction_at(w.mem, w.regs.pc)

(* C25: on architectures that cannot halt at s_endpgm, after every         *)
(* completed update, set_state or terminate the wave is parked exactly     *)
(* when its state is stop, and while it is parked the pc stored in the     *)
(* save area is the park instruction address, so that a stopped wave is    *)
(* never left with its hardware pc at an s_endpgm                          *)
C25_ParkedWhileStopped ==
  (Live /\ ~can_halt_at_endpgm(wave.arch))
  => /\ wave.m_is_parked <=> wave.m_state = STOP
     /\ wave.m_is_parked => wave.regs.pc = park_instruction_address
     /\ wave.m_state = STOP => ~is_endpgm(hardware_instruction(wave))

(* A wave stopped at an s_endpgm is parked.  *)
C25_Witness ==
  /\ Live /\ ~can_halt_at_endpgm(wave.arch)
  /\ wave.m_state = STOP /\ wave.m_is_parked
  /\ is_endpgm(instruction_at(wave.mem, wave.m_parked_pc))
  /\ wave.regs.pc = park_instruction_address

(***************************************************************************)
(* Displaced stepping of the wave.  The client starts a displaced stepping *)
(* operation on a wave it sees stopped, handing over the bytes of the      *)
(* instruction its breakpoint replaced, single-steps the wave and          *)
(* completes the operation once the wave has stopped again.                *)
(***************************************************************************)
SavedInstructions == {"seq", "cbranch", "endpgm"}

WaveDisplacedSteppingStart ==
  /\ UNCHANGED call
  /\ Live /\ ~q_suspended
  /\ client_visible_state(wave) = STOP
  /\ ~wave.m_displaced_stepping.active
  /\ \E original \in SavedInstructions :
     \E r \in {displaced_stepping_start(wave, original)} :
       /\ Commit(r.w)
       /\ api_status' = r.status
  /\ observed' = NoObservation
  /\ UNCHANGED <<q_suspended, hw_excps, resumes, reported>>

WaveDisplacedSteppingComplete ==
  /\ UNCHANGED call
  /\ Live /\ ~q_suspended
  /\ client_visible_state(wave) = STOP
  /\ wave.m_displaced_stepping.active
  /\ Commit(displaced_stepping_complete(wave))
  /\ api_status' = "SUCCESS"
  /\ observed' = NoObservation
  /\ UNCHANGED <<q_suspended, hw_excps, resumes, reported>>

(* The wave is first seen at the start of the program or at the branch     *)
(* before its last instructions.                                           *)
SteppingPcs == {Addr(0), Addr(4)}

(***************************************************************************)
(* Stop events.                                                            *)
(***************************************************************************)
StopEventKinds == {"WAVE_STOP", "WAVE_COMMAND_TERMINATED"}

(* The number of stop events an operation raised for the wave *)
EventsRaised == wave'.stop_events - wave.stop_events

(* The operation resumed the wave.  *)
Resumed == resumes' # resumes

(* The wave entered the stop state: it was not stopped, or the operation   *)
(* resumed it and it stopped again in the same operation (a simulated      *)
(* single-step).                                                           *)
EnteredStop == wave'.m_state = STOP /\ (wave.m_state # STOP \/ Resumed)

(* The wave stayed in the stop state.  *)
StayedStopped == wave'.m_state = STOP /\ wave.m_state = STOP /\ ~Resumed

EventsOfStop ==
  /\ (EnteredStop /\ wave'.m_visibility = "visible")
     => /\ EventsRaised = 1
        /\ wave'.last_event_kind \in StopEventKinds
        /\ wave'.m_last_stop_event = "queued"
  /\ StayedStopped => EventsRaised = 0

ResumeRejected(status) == api_status' = status /\ wave' = wave

(* C28: amd_dbgapi_wave_resume never resumes a wave whose last stop event  *)
(* has not been processed by the client: it returns WAVE_NOT_STOPPED       *)
(* while the event is unreported and WAVE_NOT_RESUMABLE while it is        *)
(* reported but unprocessed, and leaves the state, the stop reason and the *)
(* registers of the wave unchanged                                         *)
C28_UnprocessedNotResumed ==
  [][(WaveResume /\ wave.m_state = STOP)
     => /\ wave.m_last_stop_event = "queued"
           => ResumeRejected("ERROR_WAVE_NOT_STOPPED")
        /\ wave.m_last_stop_event = "reported"
           => ResumeRejected("ERROR_WAVE_NOT_RESUMABLE")]_vars

(* A resume of a wave with a resumable stop reason was rejected because    *)
(* its stop event is reported and not processed.                           *)
C28_Witness ==
  /\ Live /\ wave.m_state = STOP
  /\ wave.m_last_stop_event = "reported"
  /\ wave.m_stop_reason \subseteq resumable_stop_reason_mask
  /\ wave.m_stop_reason # {}
  /\ api_status = "ERROR_WAVE_NOT_RESUMABLE"

(* amd_dbgapi_wave_stop returned the status and raised no stop event.      *)
StopRejected(status) == api_status' = status /\ EventsRaised = 0

(* amd_dbgapi_wave_stop has succeeded for the wave and the wave has not    *)
(* been resumed since.                                                     *)
StopSucceeded(w) == w.stop_succeeded

(* C29: after amd_dbgapi_wave_stop has succeeded for a wave, every further *)
(* amd_dbgapi_wave_stop on that wave before it is resumed is rejected,     *)
(* with WAVE_OUTSTANDING_STOP until the stop event is reported and with    *)
(* WAVE_STOPPED afterwards, and raises no additional stop event            *)
C29_SecondStopRejected ==
  [][(WaveStop /\ StopSucceeded(wave))
     => /\ wave.m_last_stop_event = "queued"
           => StopRejected("ERROR_WAVE_OUTSTANDING_STOP")
        /\ wave.m_last_stop_event \in {"reported", "processed"}
           => StopRejected("ERROR_WAVE_STOPPED")]_vars

(***************************************************************************)
(* Single-stepping an s_endpgm.                                            *)
(***************************************************************************)
(* The instruction the wave is about to execute is s_endpgm: the simulated *)
(* displaced instruction or the instruction at pc.                         *)
AtEndpgm(w) ==
  \/ /\ w.m_displaced_stepping.active
     /\ w.m_displaced_stepping.is_simulated
     /\ is_endpgm(w.m_displaced_stepping.original)
  \/ is_endpgm(instruction_at_pc(w))

(* amd_dbgapi_wave_resume in single-step mode succeeded.  *)
SingleStepCall ==
  /\ WaveResume
  /\ api_status' = "SUCCESS"
  /\ ~wave'.aborted
  /\ wave' = [amd_dbgapi_wave_resume(wave, q_suspended, SINGLE_STEP).w
                EXCEPT !.stop_succeeded = FALSE]

Terminated ==
  /\ wave'.m_visibility = "hidden_at_endpgm"
  /\ pc_of(wave') = endpgm_instruction_address
  /\ wave'.regs.pc = endpgm_instruction_address
  /\ wave'.m_state = RUN
  /\ wave'.m_displaced_stepping = NoDisplacedStepping
  /\ EventsRaised = 1
  /\ wave'.last_event_kind = "WAVE_COMMAND_TERMINATED"
  /\ wave'.m_last_stop_event = "queued"

(* C30: resuming in single-step mode a stopped wave whose current          *)
(* instruction, or simulated displaced instruction, is s_endpgm terminates *)
(* the wave at once: the wave becomes hidden, its pc points to the         *)
(* terminating instruction, its state becomes run, its displaced stepping  *)
(* operation is released, and exactly one WAVE_COMMAND_TERMINATED event    *)
(* and no WAVE_STOP event is raised                                        *)
C30_SingleStepEndpgmTerminates ==
  [][(SingleStepCall /\ wave.m_state = STOP /\ AtEndpgm(wave))
     => Terminated]_vars

(* A wave terminated by a single-step.  *)
C30_Witness ==
  /\ Live /\ api_status = "SUCCESS"
  /\ wave.m_visibility = "hidden_at_endpgm"
  /\ wave.m_state = RUN
  /\ wave.regs.pc = endpgm_instruction_address
  /\ wave.m_last_stop_event = "queued"
  /\ wave.last_event_kind = "WAVE_COMMAND_TERMINATED"
  /\ wave.stop_events = 2

(***************************************************************************)
(* The state of the wave the client sees.                                  *)
(***************************************************************************)
(* The state the wave was last resumed into, for an operation that makes   *)
(* it enter the stop state: the state it was running in, or single-step    *)
(* when the operation itself resumed it (only a single-step is simulated). *)
LastResumedState == IF wave.m_state # STOP THEN wave.m_state ELSE SINGLE_STEP

StopEventUnreported(w) == w.m_state = STOP /\ w.m_last_stop_event = "queued"

StopEventReported(w) ==
  w.m_state = STOP /\ w.m_last_stop_event \in {"reported", "processed"}

VisibleStateOfStop ==
  /\ (EnteredStop /\ StopEventUnreported(wave'))
     => client_visible_state(wave') = LastResumedState
  /\ (StayedStopped /\ StopEventUnreported(wave'))
     => client_visible_state(wave') = client_visible_state(wave)
  /\ StopEventReported(wave') => client_visible_state(wave') = STOP

(* C27: while a wave is stopped but its stop event has not been reported   *)
(* to the client, client_visible_state returns the state the wave was last *)
(* resumed into (single-step if it was single-stepping, run if it was      *)
(* running); it returns stop once the event has been reported              *)
C27_LastResumedState == [][(Live /\ ~wave'.aborted) => VisibleStateOfStop]_vars

(***************************************************************************)
(* Spurious single-step traps.                                             *)
(***************************************************************************)
(* The generations whose wave_get_state is gfx9_architecture_t's: they do  *)
(* not report single-step exceptions precisely.                            *)
ImpreciseSingleStep(a) == a # "gfx940"

(* The pc the wave entered the trap handler with: the trap handler of a    *)
(* generation that parks stopped waves has saved it.                       *)
TrapEntryPc(w) ==
  IF park_stopped_waves(w.arch, w.r_version) THEN saved_parked_pc(w)
  ELSE w.regs.pc

(* The stop reasons the registers of the wave report, other than the       *)
(* single-step.                                                            *)
OtherStopReasons(w) ==
  (ExceptionStopReasons(signaled_exceptions(w))
     \cup TrapIdStopReasons(w.regs.ttmp6.saved_trap_id)) \ {"SINGLE_STEP"}

(* A single-stepping wave has entered the trap handler.  *)
SteppedIntoTrapHandler(w) ==
  /\ ImpreciseSingleStep(w.arch)
  /\ w.m_state = SINGLE_STEP
  /\ w.regs.ttmp6.wave_stopped

SilentlyRearmed ==
  /\ wave'.m_state = SINGLE_STEP
  /\ wave'.m_stop_reason = {}
  /\ ~wave'.regs.ttmp6.wave_stopped
  /\ hw_stepping(wave')
  /\ EventsRaised = 0

ReportedSingleStep ==
  /\ wave'.m_state = STOP
  /\ "SINGLE_STEP" \in wave'.m_stop_reason

GetStateOfStep ==
  IF TrapEntryPc(wave) # wave.m_last_stopped_pc
  THEN ReportedSingleStep
  ELSE OtherStopReasons(wave) = {}
       => IF is_sequential(instruction_at(wave.mem, TrapEntryPc(wave)))
          THEN SilentlyRearmed
          ELSE ReportedSingleStep

(* C31: on generations without precise single-step reporting, when a       *)
(* single-stepping wave has entered the trap handler with its pc equal to  *)
(* the last stopped pc and no other stop reason, get_state silently        *)
(* re-arms the single-step (the state stays single-step, the wave-stopped  *)
(* latch is cleared, no stop is reported) if the instruction at the pc is  *)
(* readable and sequential, and otherwise reports a stop with SINGLE_STEP; *)
(* whenever the pc differs from the last stopped pc the stop reason        *)
(* includes SINGLE_STEP                                                    *)
C31_SpuriousSingleStep ==
  [][(QueueSuspend /\ SteppedIntoTrapHandler(wave) /\ ~wave'.aborted)
     => GetStateOfStep]_vars

(* A single-step silently re-armed, seen at the next observation.          *)
C31_Witness ==
  /\ Live /\ q_suspended
  /\ ImpreciseSingleStep(wave.arch)
  /\ wave.m_state = SINGLE_STEP
  /\ observed.n = 1
  /\ ~wave.regs.ttmp6.wave_stopped
  /\ ~HwHalted(wave)
  /\ wave.regs.pc = wave.m_last_stopped_pc
  /\ wave.regs.ttmp6.saved_trap_id = 0
  /\ wave.regs.ttmp7 # 0

(***************************************************************************)
(* s_cbranch_join of gfx9: is_branch_taken, the join branch of             *)
(* simulate_instruction, and the new pc computed after the pop.            *)
(***************************************************************************)
(* The value read from the csp pseudo-register, mode[29:31] *)
read_csp(regs) == [hi |-> 0, lo |-> regs.csp]

(* amdgcn_architecture_t::is_branch_taken of a join: csp != mask *)
join_is_branch_taken(a, regs, instruction) ==
  LET compare(regnum) ==
        IF regnum = NotPresent
        THEN [outcome |-> "assert"]
        ELSE [outcome |-> "return",
              taken |-> read_csp(regs) # wave_read_register(regs, regnum)]
  IN compare(scalar_operand_to_regnum(a, ssrc0_operand(instruction)))

(* The reads of s[--csp * 4] and s[--csp * 4 + 1], the write of csp and of *)
(* exec_64                                                                 *)
join_pop(regs) ==
  LET regnum == first_sgpr + (regs.csp - 1) * 4
  IN [regs EXCEPT !.csp = (regs.csp - 1) % CspLimit,
                  !.exec_lo = wave_read_register(regs, regnum + 0),
                  !.exec_hi = wave_read_register(regs, regnum + 1)]

(* amdgcn_architecture_t::simulate_instruction of a join: the pop when the *)
(* branch is taken, then is_branch_taken and branch_target on the          *)
(* registers the pop has left                                              *)
join_simulate_instruction(a, regs, pc, instruction) ==
  LET next == add64(pc, to64(instruction.size))
      target(after) == arch_branch_target(a, after, pc, instruction)
      finish(after, again) ==
        CASE again.outcome = "assert" -> [outcome |-> "assert"]
          [] ~again.taken ->
               [outcome |-> "return", regs |-> after, new_pc |-> next]
          [] target(after).outcome = "assert" -> [outcome |-> "assert"]
          [] OTHER ->
               [outcome |-> "return", regs |-> after,
                new_pc |-> target(after).address]
      pop(taken) ==
        CASE taken.outcome = "assert" -> [outcome |-> "assert"]
          [] taken.taken ->
               finish(join_pop(regs),
                      join_is_branch_taken(a, join_pop(regs), instruction))
          [] OTHER -> finish(regs, taken)
  IN IF ~is_aligned(pc, minimum_instruction_alignment)
     THEN [outcome |-> "assert"]
     ELSE pop(join_is_branch_taken(a, regs, instruction))

(* The operand of the joins: vcc_lo, which holds the stack pointer the     *)
(* matching fork was entered with                                          *)
JoinOperand == 106

JoinMasks == {{0}, {16, 31}, {32, 63}, {0, 63}}

JoinPcs == {ToLimbs(0, 262144), ToLimbs(4, 32768), ToLimbs(3, Radix - 4)}

(* Scalar registers with two stack entries, mask and pc, in s[0:3] and     *)
(* s[4:7], and the value of the operand in every other register            *)
JoinRegisters(csp, value, masks, pcs, exec) ==
  [sgprs |-> [k \in 0 .. SgprCount - 1 |->
                CASE k % 4 = 0 -> lo32(LaneMask(masks[k \div 4]))
                  [] k % 4 = 1 -> hi32(LaneMask(masks[k \div 4]))
                  [] k % 4 = 2 -> lo32(pcs[k \div 4])
                  [] OTHER -> hi32(pcs[k \div 4])],
   csp |-> csp, exec_lo |-> lo32(LaneMask(exec)),
   exec_hi |-> hi32(LaneMask(exec)), rest |-> [hi |-> 0, lo |-> value]]

(* s_cbranch_join vcc_lo of a 64-lane gfx9 wave with one or two entries on *)
(* the stack                                                               *)
JoinInputs ==
  \E csp \in {1, 2}, value \in {0, 1, 2} :
    \E masks \in [0 .. 1 -> JoinMasks], pcs \in [0 .. 1 -> JoinPcs] :
      call = [fn |-> "join",
              in |-> [arch |-> "gfx9", pc |-> ExhaustivePc,
                      regs |-> JoinRegisters(csp, value, masks, pcs, {31}),
                      instruction |-> Decoded(Sop1(46, 0, JoinOperand))],
              out |-> Pending]

(* s_cbranch_i_fork of a 64-lane gfx9 wave with an empty stack, vcc_lo     *)
(* holding the stack pointer, and the matching join at the pc the side     *)
(* that runs first arrives at                                              *)
ForkJoinInputs ==
  \E sdst \in {4, 6}, d \in ForkOffsets :
    \E mask \in SUBSET SampleLanes, exec \in SUBSET SampleLanes :
      call = [fn |-> "fork_join",
              in |-> [arch |-> "gfx9", sdst |-> sdst, mask |-> mask,
                      exec |-> exec, d |-> d, pc |-> ExhaustivePc,
                      join_pc |-> [high |-> 0, low |-> 262144],
                      regs |-> [ForkRegisters(sdst, 0, mask, exec)
                                  EXCEPT !.rest = [hi |-> 0, lo |-> 0]],
                      instruction |-> Decoded(Sopk(16, sdst, Simm16(d))),
                      join |-> Decoded(Sop1(46, 0, JoinOperand))],
              out |-> Pending]

(* A call of simulate_instruction on a join *)
SimulateJoin ==
  /\ call.fn = "join"
  /\ call.out = Pending
  /\ call' = [call EXCEPT !.out =
                join_simulate_instruction(
                  call.in.arch, call.in.regs,
                  ToLimbs(call.in.pc.high, call.in.pc.low),
                  call.in.instruction)]
  /\ UNCHANGED <<wave, q_suspended, api_status, hw_excps, resumes, reported,
                 observed>>

(* A call of simulate_instruction on a fork, then one on the join *)
SimulateForkJoin ==
  /\ call.fn = "fork_join"
  /\ call.out = Pending
  /\ call' = [call EXCEPT !.out =
                join_simulate_instruction(
                  call.in.arch,
                  fork_simulate_instruction(
                    call.in.arch, call.in.regs,
                    ToLimbs(call.in.pc.high, call.in.pc.low),
                    call.in.instruction).regs,
                  ToLimbs(call.in.join_pc.high, call.in.join_pc.low),
                  call.in.join)]
  /\ UNCHANGED <<wave, q_suspended, api_status, hw_excps, resumes, reported,
                 observed>>

SimulateJoinDone == call.fn = "join" /\ call.out # Pending

SimulateForkJoinDone == call.fn = "fork_join" /\ call.out # Pending

(* The operand of the join differs from the stack pointer *)
JoinOperandDiffers == call.in.regs.rest.lo # call.in.regs.csp

(* The entry on top of the stack the join is entered with *)
TopEntry == (call.in.regs.csp - 1) * 4

(* The two sides of the fork: the one with more lanes, the fail side when  *)
(* both have as many, is the deferred one                                  *)
ForkJoinSplits == PassLanes # {} /\ FailLanes # {}

DeferredLanes ==
  IF Cardinality(FailLanes) >= Cardinality(PassLanes)
  THEN FailLanes
  ELSE PassLanes

DeferredPc ==
  IF Cardinality(FailLanes) >= Cardinality(PassLanes)
  THEN ForkNext
  ELSE ForkTarget

(* C32: simulating an s_cbranch_join whose operand differs from the stack  *)
(* pointer decreases the stack pointer by one and takes both the exec mask *)
(* and the new pc from the popped entry, so that a simulated fork followed *)
(* by the matching simulated join resumes the side the fork deferred, mask *)
(* and pc                                                                  *)
C32_JoinPopsOneEntry ==
  /\ (SimulateJoinDone /\ JoinOperandDiffers)
       => /\ call.out.outcome = "return"
          /\ call.out.regs.csp = call.in.regs.csp - 1
          /\ call.out.regs.exec_lo = call.in.regs.sgprs[TopEntry]
          /\ call.out.regs.exec_hi = call.in.regs.sgprs[TopEntry + 1]
          /\ call.out.new_pc = pair64(call.in.regs.sgprs[TopEntry + 2],
                                      call.in.regs.sgprs[TopEntry + 3])
  /\ (SimulateForkJoinDone /\ ForkJoinSplits)
       => /\ call.out.outcome = "return"
          /\ call.out.regs.csp = 0
          /\ call.out.regs.exec_lo = lo32(LaneMask(DeferredLanes))
          /\ call.out.regs.exec_hi = hi32(LaneMask(DeferredLanes))
          /\ call.out.new_pc = DeferredPc

(***************************************************************************)
(* The assertions simulate_instruction runs through, for the instructions  *)
(* can_simulate admits.  The condition of a conditional branch, which is   *)
(* read from the status register, is an input.                             *)
(***************************************************************************)
(* amdgcn_architecture_t::is_branch_taken *)
amdgcn_is_branch_taken(a, lane_count, regs, cond, instruction) ==
  LET mask_regnum ==
        scalar_operand_to_regnum(
          a, IF enc_is_cbranch_i_fork(a, instruction)
             THEN sdst_operand(instruction)
             ELSE ssrc0_operand(instruction))
  IN CASE enc_is_cbranch(a, instruction) ->
            [outcome |-> "return", taken |-> cond]
       [] enc_is_cbranch_i_fork(a, instruction)
          \/ enc_is_cbranch_g_fork(a, instruction) ->
            IF lane_count # 64 \/ mask_regnum = NotPresent
            THEN [outcome |-> "assert"]
            ELSE [outcome |-> "return",
                  taken |-> fork_is_branch_taken(a, regs, instruction)]
       [] enc_is_cbranch_join(a, instruction) ->
            join_is_branch_taken(a, regs, instruction)
       [] enc_is_branch(a, instruction) \/ enc_is_call(a, instruction)
          \/ enc_is_setpc(a, instruction) \/ enc_is_swappc(a, instruction) ->
            [outcome |-> "return", taken |-> TRUE]
       [] OTHER -> [outcome |-> "assert"]

(* The new pc at the end of amdgcn_architecture_t::simulate_instruction:   *)
(* whether it is computed or an assertion fails                            *)
new_pc_outcome(a, lane_count, regs, cond, pc, instruction) ==
  LET branch(taken) ==
        CASE taken.outcome = "assert" -> "assert"
          [] ~taken.taken -> "return"
          [] OTHER -> arch_branch_target(a, regs, pc, instruction).outcome
  IN IF enc_is_sequential(a, instruction)
     THEN "return"
     ELSE branch(amdgcn_is_branch_taken(a, lane_count, regs, cond, instruction))

(* amdgcn_architecture_t::simulate_instruction: "return" when it returns,  *)
(* "assert" when a dbgapi_assert fails or dbgapi_assert_not_reached is     *)
(* reached                                                                 *)
amdgcn_simulate_outcome(a, lane_count, regs, cond, pc, instruction) ==
  LET fork_regnum ==
        scalar_operand_to_regnum(
          a, IF enc_is_cbranch_i_fork(a, instruction)
             THEN sdst_operand(instruction)
             ELSE ssrc0_operand(instruction))
      sdst_regnum == scalar_operand_to_regnum(a, sdst_operand(instruction))
      new_pc == new_pc_outcome(a, lane_count, regs, cond, pc, instruction)
  IN CASE ~is_aligned(pc, minimum_instruction_alignment) -> "assert"
       [] enc_is_branch(a, instruction) \/ enc_is_cbranch(a, instruction)
          \/ enc_is_setpc(a, instruction) -> new_pc
       [] enc_is_endpgm(a, instruction) -> "return"
       [] enc_is_cbranch_i_fork(a, instruction)
          \/ enc_is_cbranch_g_fork(a, instruction) ->
            IF lane_count # 64 \/ fork_regnum = NotPresent
            THEN "assert"
            ELSE fork_simulate_instruction(a, regs, pc, instruction).outcome
       [] enc_is_cbranch_join(a, instruction) ->
            IF lane_count # 64
            THEN "assert"
            ELSE join_simulate_instruction(a, regs, pc, instruction).outcome
       [] enc_is_call(a, instruction) \/ enc_is_getpc(a, instruction)
          \/ enc_is_swappc(a, instruction) ->
            IF sdst_regnum = NotPresent THEN "assert" ELSE new_pc
       [] OTHER -> "assert"

(* gfx10_architecture_t::simulate_instruction *)
gfx10_simulate_outcome(a, lane_count, regs, cond, pc, instruction) ==
  IF enc_is_subvector_loop_begin(a, instruction)
     \/ enc_is_subvector_loop_end(a, instruction)
  THEN IF lane_count # 64
          \/ scalar_operand_to_regnum(a, sdst_operand(instruction))
               = NotPresent
       THEN "assert"
       ELSE "return"
  ELSE amdgcn_simulate_outcome(a, lane_count, regs, cond, pc, instruction)

(* gfx11_architecture_t::simulate_instruction and that of gfx12 *)
gfx11_simulate_outcome(a, lane_count, regs, cond, pc, instruction) ==
  IF enc_is_sendmsg(a, instruction)
     /\ simm16_operand(instruction) % 256 = MSG_DEALLOC_VGPRS
  THEN "return"
  ELSE gfx10_simulate_outcome(a, lane_count, regs, cond, pc, instruction)

(* The virtual call architecture ().simulate_instruction *)
simulate_instruction_outcome(a, lane_count, regs, cond, pc, instruction) ==
  CASE IsGfx9Isa(a) ->
         amdgcn_simulate_outcome(a, lane_count, regs, cond, pc, instruction)
    [] IsGfx10Isa(a) ->
         gfx10_simulate_outcome(a, lane_count, regs, cond, pc, instruction)
    [] OTHER ->
         gfx11_simulate_outcome(a, lane_count, regs, cond, pc, instruction)

(* The registers the instructions are simulated with: one entry on the     *)
(* stack, exec with lanes in both halves                                   *)
SimulateRegisters ==
  JoinRegisters(1, 0, [k \in 0 .. 1 |-> {0, 63}],
                [k \in 0 .. 1 |-> ToLimbs(0, 262144)], {16, 32})

(* Whole instruction words of the four scalar formats, on every            *)
(* generation, in waves of 64 lanes and, from gfx10 on, of 32              *)
SimulateInputs ==
  \E a \in Archs : \E bytes \in InstructionWords :
    \E lane_count \in {32, 64}, cond \in BOOLEAN :
      /\ lane_count = 64 \/ ~IsGfx9Isa(a)
      /\ call = [fn |-> "can_simulate_simulate",
                 in |-> [arch |-> a, pc |-> ClassifyAddress,
                         lane_count |-> lane_count, cond |-> cond,
                         regs |-> SimulateRegisters,
                         instruction |-> Decoded(bytes)],
                 out |-> Pending]

(* can_simulate, and simulate_instruction when it returns true *)
SimulateAdmitted ==
  /\ call.fn = "can_simulate_simulate"
  /\ call.out = Pending
  /\ call' = [call EXCEPT !.out =
                IF arch_can_simulate(call.in.arch, call.in.lane_count,
                                     call.in.instruction)
                THEN [outcome |-> simulate_instruction_outcome(
                                    call.in.arch, call.in.lane_count,
                                    call.in.regs, call.in.cond, call.in.pc,
                                    call.in.instruction),
                      can_simulate |-> TRUE]
                ELSE [outcome |-> "return", can_simulate |-> FALSE]]
  /\ UNCHANGED <<wave, q_suspended, api_status, hw_excps, resumes, reported,
                 observed>>

SimulateAdmittedDone ==
  call.fn = "can_simulate_simulate" /\ call.out # Pending

(* C33: simulating an instruction can_simulate admits reaches no failed    *)
(* assertion and not the cannot-simulate path                              *)
C33_AdmittedSimulates ==
  (SimulateAdmittedDone /\ call.out.can_simulate)
    => call.out.outcome = "return"

(***************************************************************************)
(* wave_get_halt and wave_set_halt on the bits of the registers.  A 32-bit *)
(* register is the set of the positions of its bits that are set.          *)
(***************************************************************************)
ttmp6_wave_stopped_mask == 30

(* value | 1 << bit when set, value & ~(1 << bit) otherwise *)
with_bit(value, bit, set) == IF set THEN value \cup {bit} ELSE value \ {bit}

(* amdgcn_architecture_t::wave_get_halt *)
amdgcn_wave_get_halt(regs) ==
  IF ttmp6_wave_stopped_mask \in regs.ttmp6
  THEN ttmp6_saved_status_halt_mask \in regs.ttmp6
  ELSE sq_wave_status_halt_mask \in regs.status

(* gfx12_architecture_t::wave_get_halt *)
gfx12_wave_get_halt(regs) ==
  IF ttmp6_wave_stopped_mask \in regs.ttmp6
  THEN ttmp6_saved_status_halt_mask \in regs.ttmp6
  ELSE sq_wave_state_priv_halt_mask \in regs.state_priv

(* amdgcn_architecture_t::wave_set_halt *)
amdgcn_wave_set_halt(regs, halt) ==
  IF ttmp6_wave_stopped_mask \in regs.ttmp6
  THEN [regs EXCEPT !.ttmp6 = with_bit(@, ttmp6_saved_status_halt_mask, halt)]
  ELSE [regs EXCEPT !.status = with_bit(@, sq_wave_status_halt_mask, halt)]

(* gfx12_architecture_t::wave_set_halt: state_priv is updated with         *)
(* sq_wave_status_halt_mask                                                *)
gfx12_wave_set_halt(regs, halt) ==
  IF ttmp6_wave_stopped_mask \in regs.ttmp6
  THEN [regs EXCEPT !.ttmp6 = with_bit(@, ttmp6_saved_status_halt_mask, halt)]
  ELSE [regs EXCEPT
          !.state_priv = with_bit(@, sq_wave_status_halt_mask, halt)]

(* The virtual calls *)
arch_wave_get_halt(a, regs) ==
  IF a = "gfx12" THEN gfx12_wave_get_halt(regs) ELSE amdgcn_wave_get_halt(regs)

arch_wave_set_halt(a, regs, halt) ==
  IF a = "gfx12"
  THEN gfx12_wave_set_halt(regs, halt)
  ELSE amdgcn_wave_set_halt(regs, halt)

(* The register that holds the halt bit of the hardware, and the bit *)
HardwareHalt(a, regs) ==
  IF a = "gfx12"
  THEN sq_wave_state_priv_halt_mask \in regs.state_priv
  ELSE sq_wave_status_halt_mask \in regs.status

(* Bits of ttmp6, status and state_priv: the halt bits, the bit next to    *)
(* them, and one other                                                     *)
HaltTtmp6 ==
  SUBSET {ttmp6_wave_stopped_mask, ttmp6_saved_status_halt_mask, 25}

HaltStatus ==
  SUBSET {sq_wave_status_halt_mask, sq_wave_state_priv_halt_mask, 9}

(* Registers of a wave: the trap handler halts the wave it stops *)
HaltInputs ==
  \E a \in Archs, halt \in BOOLEAN :
    \E ttmp6 \in HaltTtmp6, status \in HaltStatus, state_priv \in HaltStatus :
      /\ ttmp6_wave_stopped_mask \in ttmp6
           => HardwareHalt(a, [status |-> status, state_priv |-> state_priv])
      /\ call = [fn |-> "wave_set_halt",
                 in |-> [arch |-> a, halt |-> halt,
                         regs |-> [ttmp6 |-> ttmp6, status |-> status,
                                   state_priv |-> state_priv]],
                 out |-> Pending]

(* wave_set_halt (halt), then wave_get_halt *)
WaveSetHalt ==
  /\ call.fn = "wave_set_halt"
  /\ call.out = Pending
  /\ call' = [call EXCEPT !.out =
                [outcome |-> "return",
                 regs |-> arch_wave_set_halt(call.in.arch, call.in.regs,
                                             call.in.halt),
                 halt |-> arch_wave_get_halt(
                            call.in.arch,
                            arch_wave_set_halt(call.in.arch, call.in.regs,
                                               call.in.halt))]]
  /\ UNCHANGED <<wave, q_suspended, api_status, hw_excps, resumes, reported,
                 observed>>

WaveSetHaltDone == call.fn = "wave_set_halt" /\ call.out # Pending

HaltStopped == ttmp6_wave_stopped_mask \in call.in.regs.ttmp6

(* C34: wave_get_halt after wave_set_halt (h) returns h on every           *)
(* generation; on a stopped wave only the saved halt bit of ttmp6 changes  *)
(* and the halt bit of the hardware stays set, on a wave that is not       *)
(* stopped the halt bit of the hardware is changed                         *)
C34_SetHaltGetHalt ==
  WaveSetHaltDone
    => /\ call.out.halt = call.in.halt
       /\ HaltStopped
            => /\ call.out.regs =
                    [call.in.regs EXCEPT
                       !.ttmp6 = with_bit(@, ttmp6_saved_status_halt_mask,
                                          call.in.halt)]
               /\ HardwareHalt(call.in.arch, call.out.regs)
       /\ ~HaltStopped
            => /\ HardwareHalt(call.in.arch, call.out.regs) = call.in.halt
               /\ call.out.regs.ttmp6 = call.in.regs.ttmp6

(***************************************************************************)
(* A stopped wave whose registers the client writes and whose halt state   *)
(* it changes, any number of times.                                        *)
(***************************************************************************)
(* The registers of a wave that wave_set_state has stopped: wave_stopped   *)
(* and the halt bit of the hardware are set, the halt state of the wave is *)
(* saved in ttmp6                                                          *)
StoppedWave(a, saved_halt, scc) ==
  LET w == RegWave(a, 64, FALSE)
      halt == IF a = "gfx12"
              THEN [w EXCEPT !.regs["state_priv"] =
                                {sq_wave_state_priv_halt_mask}]
              ELSE [w EXCEPT !.regs["status"] = {sq_wave_status_halt_mask}]
  IN [halt EXCEPT !.regs["status"] = @ \cup scc,
                  !.regs["ttmp6"] = {ttmp6_wave_stopped_mask} \cup saved_halt]

StoppedInputs ==
  \E a \in RegArchs :
    \E saved_halt \in SUBSET {ttmp6_saved_status_halt_mask} :
      \E scc \in SUBSET {sq_wave_status_scc_mask} :
        call = [fn |-> "stopped_wave",
                in |-> [wave |-> StoppedWave(a, saved_halt, scc)],
                out |-> Returned(StoppedWave(a, saved_halt, scc), {})]

(* The registers the client writes, whole or the byte with the halt bit *)
StoppedRegnums == {"pseudo_status", "pseudo_state_priv", "csp", "s0"}

(* The client writes a register of the stopped wave *)
StoppedWriteRegister ==
  /\ call.fn = "stopped_wave"
  /\ \E regnum \in StoppedRegnums, window \in {<<0, 4>>, <<1, 1>>} :
       \E value \in Values({0, 5, 13}, window[2]) :
         /\ regnum = "pseudo_state_priv" => call.out.wave.arch = "gfx12"
         /\ call' = [call EXCEPT !.out =
                       write_register_bytes(call.out.wave, regnum, window[1],
                                            window[2], value)]
  /\ UNCHANGED <<wave, q_suspended, api_status, hw_excps, resumes, reported,
                 observed>>

(* The halt state of the stopped wave is changed *)
StoppedSetHalt ==
  /\ call.fn = "stopped_wave"
  /\ \E halt \in BOOLEAN :
       call' = [call EXCEPT !.out.wave.regs =
                  arch_wave_set_halt(call.out.wave.arch, @, halt)]
  /\ UNCHANGED <<wave, q_suspended, api_status, hw_excps, resumes, reported,
                 observed>>

(* C35: a stopped wave keeps the halt bit of the hardware and its          *)
(* wave_stopped latch set across every sequence of register writes and     *)
(* changes of its halt state, writes of the composite status register      *)
(* included                                                                *)
C35_StoppedStaysHalted ==
  call.fn = "stopped_wave"
    => /\ ttmp6_wave_stopped_mask \in call.out.wave.regs["ttmp6"]
       /\ HardwareHalt(call.out.wave.arch, call.out.wave.regs)

(* C36: control_stack_iterate reads no word of the control stack at an     *)
(* index at or beyond control_stack_words, whatever the stack holds, a     *)
(* state word in the last position included                                *)
C36_ReadsInsideStack ==
  IterateDone
    => \A i \in call.out.reads : i < call.in.control_stack_words

(* C37: from gfx11 on, register_address returns not-present for every      *)
(* vector register, from the first to the last, of a wave whose status     *)
(* register has NO_VGPRS set                                               *)
C37_NoVgprsNotPresent ==
  (/\ RegisterAddressDone
   /\ call.in.rec.arch \in {"gfx11", "gfx12"}
   /\ call.in.rec.no_vgprs
   /\ \/ call.in.regnum \in first_vgpr_32 .. last_vgpr_32
      \/ call.in.regnum \in first_vgpr_64 .. last_vgpr_64)
    => call.out.address = NotPresent

(***************************************************************************)
(* The pc across a displaced stepping operation.                           *)
(***************************************************************************)
(* The operation of the wave before the step *)
Operation == wave.m_displaced_stepping

StartSucceeded ==
  /\ WaveDisplacedSteppingStart
  /\ api_status' = "SUCCESS"
  /\ ~wave'.aborted

CompleteReturned == WaveDisplacedSteppingComplete /\ ~wave'.aborted

(* The pc of the wave moves by the distance from the second address to the *)
(* first                                                                   *)
PcMovedBy(original, displaced) ==
  /\ pc_of(wave').hi = pc_of(wave).hi + original.hi - displaced.hi
  /\ pc_of(wave').lo = pc_of(wave).lo + original.lo - displaced.lo

(* The wave has executed nothing since the operation started *)
NothingExecuted ==
  pc_of(wave) = IF Operation.is_simulated
                THEN Operation.from
                ELSE Operation.target

(* The pc register of a parked wave, in the save area, stays where it is *)
ParkedPcKept == wave.m_is_parked => wave'.regs.pc = wave.regs.pc

(* C40: displaced_stepping_complete sets the pc to the current pc plus the *)
(* original address minus the address of the displaced instruction buffer  *)
(* when the instruction was executed displaced, and leaves it untouched    *)
(* when it was simulated; a start followed by a complete with nothing      *)
(* executed in between leaves the pc at the address of the original        *)
(* instruction, also while the wave is parked                              *)
C40_CompleteRestoresPc ==
  [][/\ StartSucceeded
          => /\ wave'.m_displaced_stepping.from = pc_of(wave)
             /\ pc_of(wave') = IF wave'.m_displaced_stepping.is_simulated
                               THEN pc_of(wave)
                               ELSE wave'.m_displaced_stepping.target
             /\ ParkedPcKept
     /\ CompleteReturned
          => /\ ~wave'.m_displaced_stepping.active
             /\ IF Operation.is_simulated
                THEN pc_of(wave') = pc_of(wave)
                ELSE PcMovedBy(Operation.from, Operation.target)
             /\ NothingExecuted => pc_of(wave') = Operation.from
             /\ ParkedPcKept]_vars

(* A parked wave that has never been resumed, after the start and the      *)
(* completion of an operation that copied the instruction to the buffer    *)
C40_Witness ==
  /\ Live
  /\ resumes = 0
  /\ wave.m_state = STOP
  /\ wave.m_is_parked
  /\ wave.regs.pc = park_instruction_address
  /\ wave.mem.buffer # "none"
  /\ ~wave.m_displaced_stepping.active
  /\ pc_of(wave) \in SteppingPcs
  /\ api_status = "SUCCESS"

(***************************************************************************)
(* A wave with a displaced stepping operation and the run state.           *)
(***************************************************************************)
DisplacedStepping(w) == w.m_displaced_stepping.active

(* The tests of amd_dbgapi_wave_resume that come before the one of the     *)
(* displaced stepping operation let the wave through                       *)
ResumableWave(w) ==
  /\ client_visible_state(w) = STOP
  /\ w.m_stop_reason \subseteq resumable_stop_reason_mask
  /\ w.m_last_stop_event \notin {"queued", "reported"}

(* amd_dbgapi_wave_resume in normal mode on the wave as it is *)
ResumedNormally == amd_dbgapi_wave_resume(wave, q_suspended, RUN)

(* A call of amd_dbgapi_wave_resume that was turned down because of the    *)
(* displaced stepping operation                                            *)
ResumeDisplacedStepping ==
  /\ WaveResume
  /\ api_status' = "ERROR_RESUME_DISPLACED_STEPPING"

(* C39: a wave with a displaced stepping operation is never in the run     *)
(* state, and amd_dbgapi_wave_resume in normal mode on such a wave, when   *)
(* it is stopped and resumable, returns ERROR_RESUME_DISPLACED_STEPPING    *)
(* and leaves the wave as it is                                            *)
C39_DisplacedNeverRuns ==
  /\ [](DisplacedStepping(wave)
          => /\ wave.m_state # RUN
             /\ ResumedNormally.w = wave
             /\ ResumedNormally.status # "SUCCESS"
             /\ ResumableWave(wave)
                  => ResumedNormally.status
                       = "ERROR_RESUME_DISPLACED_STEPPING")
  /\ [][ResumeDisplacedStepping
          => /\ DisplacedStepping(wave)
             /\ wave' = wave
             /\ resumes' = resumes]_vars

C39_Witness ==
  /\ Live
  /\ DisplacedStepping(wave)
  /\ api_status = "ERROR_RESUME_DISPLACED_STEPPING"
  /\ wave.m_state = STOP
  /\ wave.m_last_stop_event = "processed"

(***************************************************************************)
(* The event that acknowledges a stop request.                             *)
(***************************************************************************)
(* The wave as amd_dbgapi_wave_stop finds it once the queue is suspended   *)
(* and the wave updated                                                    *)
WaveAtStopRequest == scoped_queue_suspend(wave, q_suspended)

(* amd_dbgapi_wave_stop stops a wave that was in the given state *)
StopRequestStops(state) ==
  /\ WaveStop
  /\ api_status' = "SUCCESS"
  /\ ~wave'.aborted
  /\ WaveAtStopRequest.m_state = state
  /\ wave'.m_state = STOP

(* The stop raised one event, of the given kind, and left no stop reason *)
StopAcknowledged(event_kind) ==
  /\ wave'.stop_events = WaveAtStopRequest.stop_events + 1
  /\ wave'.last_event_kind = event_kind
  /\ wave'.m_stop_reason = {}

(* C38: a stop request that stops a single-stepping wave raises            *)
(* WAVE_COMMAND_TERMINATED, one that stops a running wave raises           *)
(* WAVE_STOP, and the stop reason of the wave is empty afterwards          *)
C38_StopRequestEvent ==
  [][/\ StopRequestStops(SINGLE_STEP)
          => StopAcknowledged("WAVE_COMMAND_TERMINATED")
     /\ StopRequestStops(RUN) => StopAcknowledged("WAVE_STOP")]_vars

C38_Witness ==
  /\ Live
  /\ api_status = "SUCCESS"
  /\ wave.m_state = STOP
  /\ wave.m_stop_requested
  /\ wave.last_event_kind = "WAVE_COMMAND_TERMINATED"
  /\ wave.m_stop_reason = {}
  /\ wave.stop_succeeded

(***************************************************************************)
(* The specifications of the calls of the functions outside the wave state *)
(* machine: the inputs are drawn in the initial state and the call applies *)
(* the function; the wave stays as created.                                *)
(***************************************************************************)
WaveAsCreated ==
  /\ wave = InitWave("gfx9", 10, 2, Addr(0), FALSE, FALSE)
  /\ q_suspended = FALSE
  /\ api_status = "NONE"
  /\ hw_excps = 0
  /\ resumes = 0
  /\ reported = [previous |-> {}, raised |-> {}]
  /\ observed = NoObservation

(* The context save area walk and the records of its waves *)
CwsrCalls == IterateInputs \/ RegisterAddressInputs

InitCwsr == WaveAsCreated /\ CwsrCalls
NextCwsr ==
  \/ ControlStackIterate
  \/ RegisterAddress

SpecCwsr == InitCwsr /\ [][NextCwsr]_vars

(* Branch targets *)
InitBranch == WaveAsCreated /\ BranchTargetInputs
NextBranch == BranchTarget
SpecBranch == InitBranch /\ [][NextBranch]_vars

(* Forks *)
InitFork == WaveAsCreated /\ ForkInputs
NextFork == SimulateFork
SpecFork == InitFork /\ [][NextFork]_vars

(* Register writes and reads *)
InitRegisters == WaveAsCreated /\ RegisterInputs
NextRegs ==
  \/ WriteRegister
  \/ ReadRegister
SpecRegs == InitRegisters /\ [][NextRegs]_vars

(* Instruction classification *)
InitClassify == WaveAsCreated /\ ClassifyInputs
NextClassify ==
  \/ ClassifyInstruction
  \/ CanSimulate
  \/ IsEncoding
SpecClassify == InitClassify /\ [][NextClassify]_vars

(* Displaced stepping of instruction words *)
InitDisplaced == WaveAsCreated /\ DisplacedInputs
NextDisplaced ==
  \/ DisplacedSteppingStart
  \/ DisplacedSteppingShare
SpecDisplaced == InitDisplaced /\ [][NextDisplaced]_vars

(* The register accesses of the calls on a wave *)
InitAccess == WaveAsCreated /\ AccessInputs
NextAccess ==
  \/ AccessQueueSuspend
  \/ AccessQueueResume
  \/ AccessWaveStop
  \/ AccessWaveResume
  \/ AccessWaveGetInfo
  \/ AccessEventReported
  \/ AccessEventProcessed
SpecAccess == InitAccess /\ [][NextAccess]_vars

(* The statuses of the disassemble and classify entry points *)
InitApi == WaveAsCreated /\ ApiInputs
NextApi ==
  \/ DisassembleInstruction
  \/ ClassifyInstructionApi
SpecApi == InitApi /\ [][NextApi]_vars

(* The dispatch packet of a wave *)
InitPacket == WaveAsCreated /\ PacketInputs
NextPacket == DispatchPacketAddress
SpecPacket == InitPacket /\ [][NextPacket]_vars

(* The wave state machine with displaced stepping *)
InitStepping ==
  /\ call = NoCall
  /\ \E a \in Archs : \E rv \in RVersions(a) : \E pc \in SteppingPcs :
       \E scc \in BOOLEAN :
         wave = InitWave(a, rv, trap_id_debug_trap, pc, scc, FALSE)
  /\ q_suspended = FALSE
  /\ api_status = "NONE"
  /\ hw_excps = 0
  /\ resumes = 0
  /\ reported = [previous |-> {}, raised |-> {}]
  /\ observed = NoObservation
NextStepping ==
  \/ Next
  \/ WaveDisplacedSteppingStart
  \/ WaveDisplacedSteppingComplete
SpecStepping == InitStepping /\ [][NextStepping]_vars

(* Joins *)
InitJoin == WaveAsCreated /\ (JoinInputs \/ ForkJoinInputs)
NextJoin == SimulateJoin \/ SimulateForkJoin
SpecJoin == InitJoin /\ [][NextJoin]_vars

(* can_simulate and simulate_instruction *)
InitSimulate == WaveAsCreated /\ SimulateInputs
NextSimulate == SimulateAdmitted
SpecSimulate == InitSimulate /\ [][NextSimulate]_vars

(* wave_set_halt and wave_get_halt *)
InitHalt == WaveAsCreated /\ HaltInputs
NextHalt == WaveSetHalt
SpecHalt == InitHalt /\ [][NextHalt]_vars

(* Register writes and halt changes of a stopped wave *)
InitStopped == WaveAsCreated /\ StoppedInputs
NextStopped == StoppedWriteRegister \/ StoppedSetHalt
SpecStopped == InitStopped /\ [][NextStopped]_vars

====
